---- MODULE Spec2Model ----
(***************************************************************************)
(* State-machine model of the IRDIS long-slit spectroscopy reducer         *)
(* (sphere/IRDIS/SpectroReduction.py): the recipe graph, the status        *)
(* reconstruction from the files left on disk, and the recipes that read   *)
(* and extend the record catalog.                                          *)
(*                                                                         *)
(* A data frame is a record [set, rows]: set = FALSE stands for None (in   *)
(* memory) or for a missing csv file (on disk); rows is the sequence of    *)
(* rows in index order.  Times are integers, DITs are integers in          *)
(* milliseconds, so that rounding to 2 decimals is rounding to a multiple  *)
(* of 10.                                                                  *)
(***************************************************************************)
EXTENDS Integers, Sequences, FiniteSets, TLC

VARIABLES
    raw,                  \* the FITS headers found under raw/
    status,               \* self._status
    recipes_status,       \* self._recipes_status
    files_info,           \* self._files_info
    frames_info,          \* self._frames_info
    frames_info_preproc,  \* self._frames_info_preproc
    files_csv,            \* preproc/files.csv
    frames_csv,           \* preproc/frames.csv
    frames_preproc_csv,   \* preproc/frames_preproc.csv
    preproc_fits,         \* the FITS files under preproc/
    calib_fits,           \* the FITS files under calib/
    sof_files,            \* the manifests under sof/
    products,             \* the files under products/
    lastCall,             \* the method called last and how the call went
    validated,            \* recipes whose last status write of the session was SUCCESS
    driver,               \* the calls full_reduction still has to make
    used,                 \* the sessions constructed and the external faults so far
    sparta,               \* the SPARTA reduction: its session and its products/
    ifs                   \* the IFS prototype: its calibration catalog and calibs.csv

vars == <<raw, status, recipes_status, files_info, frames_info, frames_info_preproc,
          files_csv, frames_csv, frames_preproc_csv, preproc_fits, calib_fits,
          sof_files, products, lastCall, validated, driver, used, sparta, ifs>>

(* the variables of the IRDIS reduction *)
irdisVars == <<raw, status, recipes_status, files_info, frames_info, frames_info_preproc,
               files_csv, frames_csv, frames_preproc_csv, preproc_fits, calib_fits,
               sof_files, products, lastCall, validated, driver, used>>

memVars == <<files_info, frames_info, frames_info_preproc>>
diskVars == <<files_csv, frames_csv, frames_preproc_csv, preproc_fits, calib_fits,
              sof_files, products>>

----------------------------------------------------------------------------
(* the recipe and reduction status values of the sphere package *)

NOTSET == "NOTSET"
SUCCESS == "SUCCESS"
ERROR == "ERROR"
INIT == "INIT"
INCOMPLETE == "INCOMPLETE"
COMPLETE == "COMPLETE"
FATAL == "FATAL"

RecipeStatuses == {NOTSET, SUCCESS, ERROR}
ReductionStatuses == {INIT, INCOMPLETE, COMPLETE, FATAL}

(* recipe_requirements: for each recipe, the recipes that must have succeeded *)
recipe_requirements ==
    [ sort_files |-> {},
      sort_frames |-> {"sort_files"},
      check_files_association |-> {"sort_files"},
      sph_ird_cal_dark |-> {"sort_files"},
      sph_ird_cal_detector_flat |-> {"sort_files"},
      sph_ird_cal_wave |-> {"sort_files", "sph_ird_cal_detector_flat"},
      sph_ird_preprocess_science |-> {"sort_files", "sort_frames", "sph_ird_cal_dark",
                                      "sph_ird_cal_detector_flat"},
      sph_ird_star_center |-> {"sort_files", "sort_frames", "sph_ird_cal_wave"},
      sph_ird_wavelength_recalibration |-> {"sort_files", "sort_frames", "sph_ird_cal_wave"},
      sph_ird_combine_data |-> {"sort_files", "sort_frames", "sph_ird_preprocess_science"},
      sph_ird_clean |-> {} ]

Recipes == DOMAIN recipe_requirements

(* toolbox.recipe_executable: the gate every recipe but sort_files calls first *)
recipe_executable(rstatus, reduction_status, recipe, requirements) ==
    /\ reduction_status # FATAL
    /\ \A r \in requirements[recipe] :
          r \in DOMAIN rstatus /\ rstatus[r] = SUCCESS

----------------------------------------------------------------------------
(* data frames *)

None == [set |-> FALSE, rows |-> <<>>]
Frame(rows) == [set |-> TRUE, rows |-> rows]

NaN == -1

(* Series.round(2) of a DIT in milliseconds (round half to even) *)
Round2(d) ==
    IF d = NaN THEN NaN
    ELSE LET q == d \div 10
             r == d % 10
         IN  IF r < 5 THEN 10 * q
             ELSE IF r > 5 THEN 10 * (q + 1)
             ELSE IF q % 2 = 0 THEN 10 * q ELSE 10 * (q + 1)

RECURSIVE SelectSeqIdx(_, _, _)
(* the indices of the rows of s that satisfy Test, in index order *)
SelectSeqIdx(s, Test(_), i) ==
    IF i > Len(s) THEN <<>>
    ELSE IF Test(s[i]) THEN <<i>> \o SelectSeqIdx(s, Test, i + 1)
    ELSE SelectSeqIdx(s, Test, i + 1)

Range(s) == {s[i] : i \in 1..Len(s)}

RECURSIVE Unique(_)
(* Series.unique(): the distinct values in order of first appearance *)
Unique(s) ==
    IF s = <<>> THEN <<>>
    ELSE LET rest == Unique(SubSeq(s, 1, Len(s) - 1))
         IN  IF s[Len(s)] \in Range(rest) THEN rest ELSE Append(rest, s[Len(s)])

RECURSIVE SortByTime(_)
(* sort_values(by = time column): rows in increasing time *)
SortByTime(S) ==
    IF S = {} THEN <<>>
    ELSE LET first == CHOOSE x \in S : \A y \in S : x.time <= y.time
         IN  <<first>> \o SortByTime(S \ {first})

(* the variant that always adds a row, also under a label the table has *)
SetRowAppended(rows, row) == Append(rows, row)

(* df.loc[name, columns] = values: overwrite the row in place, or append it *)
SetRow(rows, row) ==
    IF \E i \in 1..Len(rows) : rows[i].name = row.name
    THEN [i \in 1..Len(rows) |-> IF rows[i].name = row.name THEN row ELSE rows[i]]
    ELSE Append(rows, row)

----------------------------------------------------------------------------
(* the datasets: FITS headers of the files under raw/ *)

Hdr(name, catg, type, dit, filt, time, ndit) ==
    [name |-> <<"raw", name, "", 0>>, catg |-> catg, type |-> type, dit |-> dit, filt |-> filt,
     arm |-> "IRDIS", mode |-> "LSS", time |-> time, ndit |-> ndit]

Flat1 == Hdr("flat1", "CALIB", "FLAT,LAMP", 1000, "S_LR", 1, 1)
Flat2 == Hdr("flat2", "CALIB", "FLAT,LAMP", 1000, "S_LR", 2, 1)
Wave1 == Hdr("wave1", "CALIB", "LAMP,WAVE", 1650, "S_LR", 3, 1)
Dark1 == Hdr("dark1", "CALIB", "DARK", 1650, "S_LR", 4, 1)
Cen1 == Hdr("cen1", "SCIENCE", "OBJECT,CENTER", 1650, "S_LR", 5, 1)
Sci1 == Hdr("sci1", "SCIENCE", "OBJECT", 1650, "S_LR", 6, 2)
Acq1 == Hdr("acq1", "ACQUISITION", "OBJECT", 1650, "S_LR", 0, 1)
Ifs1 == [Hdr("ifs1", "CALIB", "DARK", 1650, "S_LR", 7, 1) EXCEPT !.arm = "IFS"]

DataGood == {Flat1, Flat2, Wave1, Dark1, Cen1, Sci1, Acq1}
DataObjectOnly == {Flat1, Flat2, Wave1, Dark1, Sci1}
DataOneFlat == {Flat1, Wave1, Dark1, Cen1, Sci1}
DataNoScience == {Flat1, Flat2, Wave1, Dark1}
DataMixedArm == {Flat1, Flat2, Wave1, Dark1, Cen1, Sci1, Ifs1}
DataEmpty == {}

Datasets == {DataGood, DataObjectOnly, DataNoScience, DataMixedArm, DataEmpty}

(* raw directories that exercise the association rules: a second wavelength
   calibration before or after the science exposure, science DITs that differ
   only beyond the second decimal, a science DIT without dark, a wavelength
   calibration whose DIT is not a two-decimal value, a wavelength calibration in
   a filter combination that is not the science one, and science exposures that
   mix observing modes, filter combinations or arms *)
Wave2 == Hdr("wave2", "CALIB", "LAMP,WAVE", 1650, "S_LR", 12, 1)
DataWaveBefore == {Flat1, Flat2, Wave1, Wave2, Dark1, Sci1}
DataWaveAfter == {Flat1, Flat2, Wave1, Wave2, Dark1,
                  Hdr("sci2", "SCIENCE", "OBJECT", 1650, "S_LR", 11, 1)}
DataJitter == {Flat1, Flat2, Wave1, Dark1,
               Hdr("sci3", "SCIENCE", "OBJECT", 4001, "S_LR", 7, 1),
               Hdr("sci4", "SCIENCE", "OBJECT", 4004, "S_LR", 8, 1)}
DataTwoDits == {Flat1, Flat2, Wave1, Dark1, Sci1,
                Hdr("sci5", "SCIENCE", "OBJECT", 4000, "S_LR", 7, 1)}
DataWaveJitter == {Flat1, Flat2, Hdr("wave3", "CALIB", "LAMP,WAVE", 1652, "S_LR", 3, 1),
                   Dark1, Sci1}
DataMixedMode == {Flat1, Flat2, Wave1, Dark1, Sci1,
                  [Hdr("sci6", "SCIENCE", "OBJECT", 1650, "S_LR", 7, 1) EXCEPT !.mode = "DBI"]}
DataMixedFilter == {Flat1, Flat2, Wave1, Dark1, Sci1,
                    Hdr("sci7", "SCIENCE", "OBJECT", 1650, "S_MR", 7, 1)}
DataMixedScience == {Flat1, Flat2, Wave1, Dark1, Sci1,
                     [Hdr("sci8", "SCIENCE", "OBJECT", 1650, "S_LR", 7, 1) EXCEPT !.arm = "IFS"]}

(* raw directories with several OBJECT,CENTER files around the science
   exposures: three candidates with a science exposure next to the second and
   one next to the third, and two candidates equally far from the science *)
DataThreeCenters == {Flat1, Flat2, Wave1, Dark1,
                     Hdr("cen2", "SCIENCE", "OBJECT,CENTER", 1650, "S_LR", 10, 1),
                     Hdr("cen3", "SCIENCE", "OBJECT,CENTER", 1650, "S_LR", 15, 1),
                     Hdr("cen4", "SCIENCE", "OBJECT,CENTER", 1650, "S_LR", 30, 1),
                     Hdr("sci9", "SCIENCE", "OBJECT", 1650, "S_LR", 16, 1),
                     Hdr("sci10", "SCIENCE", "OBJECT", 1650, "S_LR", 29, 1)}
DataTiedCenters == {Flat1, Flat2, Wave1, Dark1,
                    Hdr("cen5", "SCIENCE", "OBJECT,CENTER", 1650, "S_LR", 14, 1),
                    Hdr("cen6", "SCIENCE", "OBJECT,CENTER", 1650, "S_LR", 18, 1),
                    Hdr("sci11", "SCIENCE", "OBJECT", 1650, "S_LR", 16, 2)}

(* raw directories on which a recipe changes the catalog and then ends with an
   error: darks of two DITs, of which the second esorex call may fail, and two
   wavelength calibrations with a single flat *)
Dark2 == Hdr("dark2", "CALIB", "DARK", 4000, "S_LR", 8, 1)
DataTwoDarks == DataTwoDits \cup {Dark2}
DataOneFlatTwoWaves == DataWaveBefore \ {Flat2}

(* raw directories with several sources of background: a sky, an instrument
   background in the filter of the dark and in another one, a dark in another
   filter, and science exposures at a DIT without dark *)
BackgroundDatasets ==
    {DataTwoDits,
     DataObjectOnly \cup {Hdr("sky1", "SCIENCE", "SKY", 1650, "S_LR", 9, 1)},
     DataObjectOnly \cup {Hdr("bkg1", "CALIB", "DARK,BACKGROUND", 1650, "S_LR", 9, 1)},
     DataObjectOnly \cup {Hdr("bkg2", "CALIB", "DARK,BACKGROUND", 1650, "S_MR", 9, 1)},
     DataObjectOnly \cup {Hdr("dark3", "CALIB", "DARK", 1650, "S_MR", 9, 1)}}

CenterDatasets == {DataGood, DataObjectOnly, DataThreeCenters, DataTiedCenters}

AssocDatasets == {DataObjectOnly, DataOneFlat, DataWaveBefore, DataWaveAfter, DataJitter,
                  DataTwoDits, DataWaveJitter, DataMixedMode, DataMixedFilter,
                  DataMixedScience, DataObjectOnly \ {Wave1}, DataTwoDarks,
                  DataOneFlatTwoWaves, DataObjectOnly \ {Flat1, Flat2},
                  DataObjectOnly \cup {Hdr("bkg1", "CALIB", "DARK,BACKGROUND", 1650, "S_LR", 9, 1)},
                  DataObjectOnly \cup {Hdr("wave4", "CALIB", "LAMP,WAVE", 1650, "S_MR", 9, 1)}}

----------------------------------------------------------------------------
(* bounds of the exploration *)

MaxSessions == 2   \* sessions constructed on the directory in one behaviour
MaxFaults == 1     \* external calls that fail in one behaviour
MaxCalls == 3      \* methods the user calls in one behaviour
MaxSteps == 11     \* recipes entered in one behaviour, called directly or in a chain

----------------------------------------------------------------------------
(* bookkeeping shared by the methods *)

RECURSIVE ApplyWrites(_, _)
(* _update_recipe_status applied for each <<recipe, status>> of w, in order *)
ApplyWrites(rs, w) ==
    IF w = <<>> THEN rs
    ELSE ApplyWrites([rs EXCEPT ![w[1][1]] = w[1][2]], Tail(w))

RECURSIVE ApplyEvidence(_, _, _)
(* how each recipe came to its status: "run" or "reconstructed" for SUCCESS, else "no" *)
ApplyEvidence(v, w, how) ==
    IF w = <<>> THEN v
    ELSE ApplyEvidence([v EXCEPT ![w[1][1]] = IF w[1][2] = SUCCESS THEN how ELSE "no"],
                       Tail(w), how)

UpdateStatus(w, how) ==
    /\ recipes_status' = ApplyWrites(recipes_status, w)
    /\ validated' = ApplyEvidence(validated, w, how)

(* the chained method in progress: the calls it has still to make, whether every
   external call and every configured parameter was good so far, whether it started
   on a fresh session, and the raw files it started on *)
Idle == [todo |-> <<>>, active |-> FALSE, ok |-> TRUE, valid |-> TRUE, fresh |-> FALSE,
         method |-> "", data |-> {}]

InFullReduction == driver.active /\ driver.todo # <<>>

(* a method can be called by the user, or by full_reduction when it is its turn *)
CanCall(op) ==
    IF InFullReduction THEN Head(driver.todo) = op
    ELSE /\ used.calls < MaxCalls
         /\ op \in Recipes => used.steps < MaxSteps

(* the record of a call; how: "ok", "fault" (an external call of the method failed)
   or "invalid" (the caller passed a parameter the method rejects) *)
(* what a call of sph_ird_combine_data was asked, which centers it took for its
   OBJECT,CENTER and OBJECT frames and which wavelength file it read, and which
   backgrounds a call of sph_ird_preprocess_science took; empty for every other
   call *)
NoNote == [manual |-> "", selection |-> "", center |-> <<>>, object |-> <<>>, wave |-> "",
           bkg |-> <<>>]

CalledNote(op, ran, result, how, warn, err, note) ==
    /\ lastCall' = [op |-> op, ran |-> ran, result |-> result, warn |-> warn, err |-> err,
                    again |-> (lastCall.op = op), note |-> note]
    /\ driver' = IF InFullReduction
                 THEN [driver EXCEPT !.todo = IF result = "raised" THEN <<>> ELSE Tail(@),
                                     !.ok = @ /\ how # "fault",
                                     !.valid = @ /\ how # "invalid"]
                 ELSE Idle
    /\ used' = [used EXCEPT !.faults = IF how = "fault" THEN @ + 1 ELSE @,
                            !.sessions = IF op = "__new__" THEN @ + 1 ELSE @,
                            !.calls = IF InFullReduction THEN @ ELSE @ + 1,
                            !.steps = IF op \in Recipes THEN @ + 1 ELSE @]
    /\ UNCHANGED <<sparta, ifs>>

(* ok: the external calls of this method all succeeded *)
CalledHow(op, ran, result, how, warn, err) ==
    CalledNote(op, ran, result, how, warn, err, NoNote)

CalledWith(op, ran, result, ok, warn, err) ==
    CalledHow(op, ran, result, IF ok THEN "ok" ELSE "fault", warn, err)

(* an external call may fail while the fault budget lasts *)
MayFail == used.faults < MaxFaults

Called(op, ran, result, ok) == CalledWith(op, ran, result, ok, 0, 0)

(* the gate called with a status that is not the session's current one *)
ExecutableStaleStatus(recipe) ==
    recipe_executable(recipes_status, INCOMPLETE, recipe, recipe_requirements)

(* the gate called with another recipe's name *)
ExecutableOtherName(recipe) ==
    recipe_executable(recipes_status, status, "sort_frames", recipe_requirements)

(* the gate as each recipe calls it: on its own status map, its own name *)
Executable(recipe) ==
    recipe_executable(recipes_status, status, recipe, recipe_requirements)

(* an early return that records the refusal in the recipe's own status *)
GatedReturnMarked(op) ==
    /\ Called(op, FALSE, "gated", TRUE)
    /\ UpdateStatus(<<<<op, ERROR>>>>, "run")
    /\ UNCHANGED <<raw, status, memVars, diskVars>>

(* the early return of a gated recipe *)
GatedReturn(op) ==
    /\ Called(op, FALSE, "gated", TRUE)
    /\ UNCHANGED <<raw, status, recipes_status, validated, memVars, diskVars>>

(* DataFrame.to_csv and pd.read_csv: every modelled column survives the round trip *)
ToCsv(frame) == frame
ReadCsv(file) == file

NoName == <<"", "", "", 0>>
WAVELENGTH_DEFAULT == <<NoName, 0, "wavelength_default">>
WAVELENGTH_RECALIBRATED == <<NoName, 0, "wavelength_recalibrated">>
PreprocFile(file, idx) == <<file, idx, "preproc">>
CentersFile(file, idx) == <<file, idx, "preproc_centers">>
SpotDistFile(file, idx) == <<file, idx, "preproc_spot_distance">>

HasProCatg(frame, catg) == \E i \in 1..Len(frame.rows) : frame.rows[i].procatg = catg

----------------------------------------------------------------------------
(* _read_info: reload the data frames and reconstruct the recipe statuses *)

(* the files _read_info looks at *)
Disk == [files_csv |-> files_csv, frames_csv |-> frames_csv,
         frames_preproc_csv |-> frames_preproc_csv, preproc_fits |-> preproc_fits]

EmptyDisk == [files_csv |-> None, frames_csv |-> None,
              frames_preproc_csv |-> None, preproc_fits |-> {}]

(* the status writes _read_info makes on the disk state d, in order *)
ReadInfoWrites(d) ==
    LET fi == ReadCsv(d.files_csv)
        fp == ReadCsv(d.frames_preproc_csv)
        cen == {i \in 1..Len(fp.rows) : fp.rows[i].type \in {"OBJECT,FLUX", "OBJECT,CENTER"}}
    IN  (IF d.files_csv.set
         THEN <<<<"sort_files", SUCCESS>>>>
              \o (IF HasProCatg(fi, "IRD_MASTER_DARK")
                  THEN <<<<"sph_ird_cal_dark", SUCCESS>>>> ELSE <<>>)
              \o (IF HasProCatg(fi, "IRD_FLAT_FIELD")
                  THEN <<<<"sph_ird_cal_detector_flat", SUCCESS>>>> ELSE <<>>)
              \o (IF HasProCatg(fi, "IRD_WAVECALIB")
                  THEN <<<<"sph_ird_cal_wave", SUCCESS>>>> ELSE <<>>)
         ELSE <<>>)
        \o (IF d.frames_csv.set THEN <<<<"sort_frames", SUCCESS>>>> ELSE <<>>)
        \o (IF d.frames_preproc_csv.set
            THEN (IF WAVELENGTH_DEFAULT \in d.preproc_fits
                  THEN <<<<"sph_ird_cal_wave", SUCCESS>>>> ELSE <<>>)
                 \o (IF WAVELENGTH_RECALIBRATED \in d.preproc_fits
                     THEN <<<<"sph_ird_wavelength_recalibration", SUCCESS>>>> ELSE <<>>)
                 \o (IF \A i \in 1..Len(fp.rows) :
                           PreprocFile(fp.rows[i].file, fp.rows[i].img) \in d.preproc_fits
                     THEN <<<<"sph_ird_preprocess_science", SUCCESS>>>> ELSE <<>>)
                 \o (IF \A i \in cen :
                           CentersFile(fp.rows[i].file, fp.rows[i].img) \in d.preproc_fits
                     THEN <<<<"sph_ird_star_center", SUCCESS>>>> ELSE <<>>)
            ELSE <<>>)

(* the status _read_info leaves the reduction in *)
ReadInfoStatus == INCOMPLETE

(* a reconstruction that marks a recipe only when its prerequisites were SUCCESS in
   the status map it started from *)
ReadInfoEffectChecked(d, rs, v) ==
    LET w == SelectSeq(ReadInfoWrites(d),
                       LAMBDA x : \A q \in recipe_requirements[x[1]] : rs[q] = SUCCESS)
    IN  /\ files_info' = ReadCsv(d.files_csv)
        /\ frames_info' = ReadCsv(d.frames_csv)
        /\ frames_info_preproc' = ReadCsv(d.frames_preproc_csv)
        /\ recipes_status' = ApplyWrites(rs, w)
        /\ validated' = ApplyEvidence(v, w, "reconstructed")
        /\ status' = ReadInfoStatus

(* what _read_info does to the session, from the disk state d, the status map rs
   and the evidence v *)
ReadInfoEffect(d, rs, v) ==
    /\ files_info' = ReadCsv(d.files_csv)
    /\ frames_info' = ReadCsv(d.frames_csv)
    /\ frames_info_preproc' = ReadCsv(d.frames_preproc_csv)
    /\ recipes_status' = ApplyWrites(rs, ReadInfoWrites(d))
    /\ validated' = ApplyEvidence(v, ReadInfoWrites(d), "reconstructed")
    /\ status' = ReadInfoStatus

read_info ==
    /\ CanCall("_read_info")
    /\ ReadInfoEffect(Disk, recipes_status, validated)
    /\ Called("_read_info", TRUE, "returned", TRUE)
    /\ UNCHANGED <<raw, diskVars>>

----------------------------------------------------------------------------
(* __new__: a new session on the same directory *)

AllNotSet == [r \in Recipes |-> NOTSET]
NoEvidence == [r \in Recipes |-> "no"]

(* the status __new__ sets before it reloads the data frames *)
NewStatus == INIT

New(clean_start) ==
    /\ CanCall("__new__")
    /\ raw.exists
    /\ used.sessions < MaxSessions
    /\ IF clean_start
       THEN /\ files_csv' = None
            /\ frames_csv' = None
            /\ frames_preproc_csv' = None
            /\ preproc_fits' = {}
            /\ calib_fits' = {}
            /\ sof_files' = {}
            /\ products' = {}
            /\ ReadInfoEffect(EmptyDisk, AllNotSet, NoEvidence)
       ELSE /\ UNCHANGED diskVars
            /\ ReadInfoEffect(Disk, AllNotSet, NoEvidence)
    /\ Called("__new__", TRUE, "returned", TRUE)
    /\ UNCHANGED raw

----------------------------------------------------------------------------
(* sort_files: build the catalog from the raw headers; the one ungated recipe *)

Supported(h) == h.catg # "ACQUISITION" /\ h.type # "OBJECT,AO"

IsScienceFile(r) == r.catg = "SCIENCE" /\ r.type # "SKY"

CatalogRow(h) ==
    [name |-> h.name, catg |-> h.catg, type |-> h.type, dit |-> h.dit, filt |-> h.filt,
     arm |-> h.arm, mode |-> h.mode, time |-> h.time, ndit |-> h.ndit,
     processed |-> FALSE, procatg |-> " "]

(* the variant that returns from the empty directory without marking the recipe *)
SortFilesFailedUnmarked == <<<<"sort_files", NOTSET>>>>

(* status writes of a sort_files that found nothing to sort (lines 581, 591 and 658) *)
SortFilesFailed == <<<<"sort_files", NOTSET>>, <<"sort_files", ERROR>>>>

sort_files ==
    /\ CanCall("sort_files")
    /\ LET kept == {h \in raw.files : Supported(h)}
           instru == {h.arm : h \in kept}
           sci_files == {h \in kept : IsScienceFile(h)}
           catalog == Frame(SortByTime({CatalogRow(h) : h \in kept}))
       IN  IF raw.files = {} \/ Cardinality(instru) # 1
           THEN /\ UpdateStatus(SortFilesFailed, "run")
                /\ status' = FATAL
                /\ UNCHANGED <<memVars, diskVars>>
           ELSE IF sci_files = {}
           THEN /\ UpdateStatus(<<<<"sort_files", NOTSET>>, <<"sort_frames", ERROR>>>>, "run")
                /\ status' = FATAL
                /\ UNCHANGED <<memVars, diskVars>>
           ELSE /\ files_csv' = ToCsv(catalog)
                /\ files_info' = catalog
                /\ UpdateStatus(<<<<"sort_files", NOTSET>>, <<"sort_files", SUCCESS>>>>, "run")
                /\ status' = INCOMPLETE
                /\ UNCHANGED <<frames_info, frames_info_preproc, frames_csv,
                               frames_preproc_csv, preproc_fits, calib_fits, sof_files,
                               products>>
    /\ Called("sort_files", TRUE, "returned", TRUE)
    /\ UNCHANGED raw

----------------------------------------------------------------------------
(* sort_frames: one row per sub-exposure of every science file *)

(* the variant that numbers the frames of a file from 1 *)
FrameRowFromOne(r, i) ==
    [file |-> r.name, img |-> i + 1, catg |-> r.catg, type |-> r.type, dit |-> r.dit,
     filt |-> r.filt, time |-> r.time, ndit |-> r.ndit, t |-> 100 * r.time + i]

FrameRow(r, i) ==
    [file |-> r.name, img |-> i, catg |-> r.catg, type |-> r.type, dit |-> r.dit,
     filt |-> r.filt, time |-> r.time, ndit |-> r.ndit, t |-> 100 * r.time + i]

RECURSIVE ExpandFrames(_)
(* the rows of the science files, each repeated NDIT times with IMG = 0 .. NDIT-1 *)
ExpandFrames(rows) ==
    IF rows = <<>> THEN <<>>
    ELSE IF IsScienceFile(rows[1])
    THEN [i \in 1..rows[1].ndit |-> FrameRow(rows[1], i - 1)] \o ExpandFrames(Tail(rows))
    ELSE ExpandFrames(Tail(rows))

sort_frames ==
    /\ CanCall("sort_frames")
    /\ IF ~Executable("sort_frames")
       THEN GatedReturn("sort_frames")
       ELSE \E angles_ok \in {TRUE, ~MayFail} :
            LET frames == Frame(ExpandFrames(files_info.rows))
                cinfo == {i \in 1..Len(frames.rows) : frames.rows[i].type = "OBJECT"}
                cinfo2 == {i \in 1..Len(frames.rows) : frames.rows[i].type = "OBJECT,CENTER"}
            IN  IF ~angles_ok
                THEN /\ UpdateStatus(<<<<"sort_frames", ERROR>>>>, "run")
                     /\ status' = FATAL
                     /\ Called("sort_frames", TRUE, "returned", FALSE)
                     /\ UNCHANGED <<raw, memVars, diskVars>>
                ELSE /\ frames_csv' = ToCsv(frames)
                     /\ frames_info' = frames
                     /\ UNCHANGED <<raw, files_info, frames_info_preproc, files_csv,
                                    frames_preproc_csv, preproc_fits, calib_fits,
                                    sof_files, products>>
                     /\ IF cinfo = {} /\ cinfo2 = {}
                        THEN /\ Called("sort_frames", TRUE, "raised", TRUE)
                             /\ UNCHANGED <<status, recipes_status, validated>>
                        ELSE /\ UpdateStatus(<<<<"sort_frames", SUCCESS>>>>, "run")
                             /\ status' = INCOMPLETE
                             /\ Called("sort_frames", TRUE, "returned", TRUE)

----------------------------------------------------------------------------
(* check_files_association: the calibration association pass *)

RECURSIVE SeqSum(_)
SeqSum(s) == IF s = <<>> THEN 0 ELSE s[1] + SeqSum(Tail(s))

(* the values of column f over the rows selected by Test, in index order *)
Column(rows, Test(_), f(_)) ==
    LET idx == SelectSeqIdx(rows, Test, 1)
    IN  [k \in 1..Len(idx) |-> f(rows[idx[k]])]

IsCalib(r) == r.catg = "CALIB" \/ (r.catg = "SCIENCE" /\ r.type = "SKY")
IsDarkType(r) == r.type = "DARK" \/ r.type = "DARK,BACKGROUND"
IsObjectType(r) == r.type \in {"OBJECT", "OBJECT,CENTER", "OBJECT,FLUX"}

(* the rows that files_info.drop(time_delta[1:].index) removes: every matching
   wavelength calibration but the first one in index order *)
WaveDropped(rows, filter_comb) ==
    LET cfiles == SelectSeqIdx(rows, LAMBDA r : IsCalib(r) /\ r.type = "LAMP,WAVE"
                                               /\ r.filt = filter_comb, 1)
    IN  {rows[cfiles[k]].name : k \in 2..Len(cfiles)}

(* the variant that asks for one flat only *)
FlatsMissingNone(cfiles) == Len(cfiles) < 1

(* the flat requirement counts an error (line 871) *)
FlatsMissing(cfiles) == Len(cfiles) <= 1

(* the variant that aborts on warnings too *)
AssociationFailedOnWarning(error_flag, warning_flag) == error_flag + warning_flag # 0

(* the pass aborts after its checks (line 930) *)
AssociationFailed(error_flag, warning_flag) == error_flag # 0

(* the outcome of the pass on the catalog rows: how it ends, the rows it leaves in
   memory, and the warning and error counts *)
Association(rows) ==
    LET arm == Unique(Column(rows, LAMBDA r : TRUE, LAMBDA r : r.arm))
        sci(r) == r.catg = "SCIENCE"
        modes == Unique(Column(rows, sci, LAMBDA r : r.mode))
        filter_combs == Unique(Column(rows, sci, LAMBDA r : r.filt))
        filter_comb == filter_combs[1]
        calibs == SelectSeq(rows, IsCalib)
        flats == SelectSeq(calibs, LAMBDA r : r.type = "FLAT,LAMP" /\ r.filt = filter_comb)
        waves == SelectSeq(calibs, LAMBDA r : r.type = "LAMP,WAVE" /\ r.filt = filter_comb)
        dropped == IF Len(waves) > 1 THEN WaveDropped(rows, filter_comb) ELSE {}
        kept == SelectSeq(rows, LAMBDA r : r.name \notin dropped)
        wavecal == Column(kept, LAMBDA r : r.type = "LAMP,WAVE" /\ r.filt = filter_comb,
                          LAMBDA r : r.dit)
        wavecal_DIT == wavecal[1]
        wavedarks == SelectSeq(calibs, LAMBDA r : IsDarkType(r) /\ r.dit # NaN
                                                  /\ Round2(r.dit) = wavecal_DIT)
        uniq == Unique(Column(kept, LAMBDA r : sci(r) /\ IsObjectType(r),
                              LAMBDA r : r.dit))
        DITs == [k \in 1..Len(uniq) |-> Round2(uniq[k])]
        nodark(DIT) == SelectSeq(calibs, LAMBDA r : IsDarkType(r) /\ r.dit # NaN
                                                    /\ Round2(r.dit) = DIT) = <<>>
        nosky(DIT) == SelectSeq(kept, LAMBDA r : r.type = "SKY" /\ r.dit # NaN
                                                 /\ Round2(r.dit) = DIT) = <<>>
        error_flag == (IF FlatsMissing(flats) THEN 1 ELSE 0)
                      + (IF Len(waves) = 0 THEN 1 ELSE 0)
                      + (IF wavedarks = <<>> THEN 1 ELSE 0)
        warning_flag == (IF Len(waves) > 1 THEN 1 ELSE 0)
                        + SeqSum([k \in 1..Len(DITs) |->
                                    (IF nodark(DITs[k]) THEN 1 ELSE 0)
                                    + (IF nosky(DITs[k]) THEN 1 ELSE 0)])
    IN  IF Len(arm) # 1
        THEN [end |-> "error", rows |-> rows, warn |-> 0, err |-> 0]
        ELSE IF Len(modes) # 1
        THEN [end |-> "raised", rows |-> rows, warn |-> 0, err |-> 0]
        ELSE IF Len(filter_combs) # 1 \/ filter_comb \notin {"S_LR", "S_MR"}
        THEN [end |-> "error", rows |-> rows, warn |-> 0, err |-> 0]
        ELSE IF wavecal = <<>>
        THEN [end |-> "raised", rows |-> kept, warn |-> 0, err |-> 0]
        ELSE IF AssociationFailed(error_flag, warning_flag)
        THEN [end |-> "error", rows |-> kept, warn |-> warning_flag, err |-> error_flag]
        ELSE [end |-> "success", rows |-> kept, warn |-> warning_flag, err |-> 0]

check_files_association ==
    /\ CanCall("check_files_association")
    /\ IF ~Executable("check_files_association")
       THEN GatedReturn("check_files_association")
       ELSE LET a == Association(files_info.rows)
            IN  /\ files_info' = Frame(a.rows)
                /\ IF a.end = "success"
                   THEN /\ files_csv' = ToCsv(Frame(a.rows))
                        /\ UpdateStatus(<<<<"check_files_association", SUCCESS>>>>, "run")
                        /\ status' = INCOMPLETE
                        /\ CalledWith("check_files_association", TRUE, "returned", TRUE,
                                      a.warn, 0)
                   ELSE IF a.end = "error"
                   THEN /\ UpdateStatus(<<<<"check_files_association", ERROR>>>>, "run")
                        /\ CalledWith("check_files_association", TRUE, "returned", TRUE,
                                      a.warn, a.err)
                        /\ UNCHANGED <<status, files_csv>>
                   ELSE /\ CalledWith("check_files_association", TRUE, "raised", TRUE, 0, 0)
                        /\ UNCHANGED <<status, recipes_status, validated, files_csv>>
                /\ UNCHANGED <<raw, frames_info, frames_info_preproc, frames_csv,
                               frames_preproc_csv, preproc_fits, calib_fits, sof_files,
                               products>>

----------------------------------------------------------------------------
(* the esorex recipes: sph_ird_cal_dark, sph_ird_cal_detector_flat, sph_ird_cal_wave *)

DarkName(loc, cfilt, DIT) == <<"dark", loc, cfilt, DIT>>
DarkBpmName(loc, cfilt, DIT) == <<"dark_bpm", loc, cfilt, DIT>>
FlatName(cfilt) == <<"flat", "", cfilt, 0>>
FlatBpmName(cfilt) == <<"flat_bpm", "", cfilt, 0>>
WaveName == <<"wave_calib", "", "", 0>>

DarkSof(cfilt, DIT) == <<"dark", cfilt, DIT>>
FlatSof(cfilt) == <<"flat", cfilt, 0>>
WaveSof == <<"wave", "", 0>>

(* open(sof, 'w'): the manifest replaces any manifest of the same name *)
WriteSof(sofs, name, files) ==
    {x \in sofs : x.name # name} \cup {[name |-> name, files |-> files]}

(* a row that df.loc creates: every column is NaN until it is assigned *)
BlankRow(name) ==
    [name |-> name, catg |-> "NaN", type |-> "NaN", dit |-> NaN, filt |-> "NaN",
     arm |-> "NaN", mode |-> "NaN", time |-> NaN, ndit |-> NaN,
     processed |-> FALSE, procatg |-> "NaN"]

(* the variant that registers a product without its category *)
StoreProductUntagged(rows, name, src, with_dit, procatg) ==
    LET old == IF \E i \in 1..Len(rows) : rows[i].name = name
               THEN (CHOOSE r \in Range(rows) : r.name = name)
               ELSE BlankRow(name)
    IN  SetRow(rows, [old EXCEPT !.catg = src.catg, !.type = src.type, !.filt = src.filt,
                                 !.mode = src.mode,
                                 !.dit = IF with_dit THEN src.dit ELSE @,
                                 !.processed = TRUE])

(* the files_info.loc[product, ...] assignments that register a product of src *)
StoreProduct(rows, name, src, with_dit, procatg) ==
    LET old == IF \E i \in 1..Len(rows) : rows[i].name = name
               THEN (CHOOSE r \in Range(rows) : r.name = name)
               ELSE BlankRow(name)
    IN  SetRow(rows, [old EXCEPT !.catg = src.catg, !.type = src.type, !.filt = src.filt,
                                 !.mode = src.mode,
                                 !.dit = IF with_dit THEN src.dit ELSE @,
                                 !.processed = TRUE, !.procatg = procatg])

DarkTypes == <<"DARK", "DARK,BACKGROUND", "SKY">>

(* the non-empty (type, DIT, filter) combinations of the dark loop, in loop order *)
DarkGroups(rows) ==
    LET calibs == SelectSeq(rows, LAMBDA r : ~r.processed /\ r.type \in Range(DarkTypes))
        uniq == Unique([k \in 1..Len(calibs) |-> calibs[k].dit])
        DITs == [k \in 1..Len(uniq) |-> Round2(uniq[k])]
        filter_combs == Unique([k \in 1..Len(calibs) |-> calibs[k].filt])
        nd == Len(DITs)
        nf == Len(filter_combs)
        all == [n \in 1..(3 * nd * nf) |->
                  LET ctype == DarkTypes[((n - 1) \div (nd * nf)) + 1]
                      DIT == DITs[(((n - 1) \div nf) % nd) + 1]
                      cfilt == filter_combs[((n - 1) % nf) + 1]
                  IN  [ctype |-> ctype, DIT |-> DIT, cfilt |-> cfilt,
                       cfiles |-> SelectSeq(calibs, LAMBDA r : r.type = ctype
                                              /\ Round2(r.dit) = DIT /\ r.filt = cfilt)]]
    IN  SelectSeq(all, LAMBDA g : g.cfiles # <<>>)

DarkLoc(ctype) == IF ctype = "SKY" THEN "sky" ELSE "internal"

RECURSIVE DarkLoop(_, _, _)
(* the dark loop over the groups gs from the state st = [rows, sof, calib, failed];
   the esorex call of group number fail_at (if any) does not succeed *)
DarkLoop(gs, st, fail_at) ==
    IF gs = <<>> THEN st
    ELSE LET g == gs[1]
             sof2 == WriteSof(st.sof, DarkSof(g.cfilt, g.DIT),
                              [k \in 1..Len(g.cfiles) |-> g.cfiles[k].name])
             dark_file == DarkName(DarkLoc(g.ctype), g.cfilt, g.DIT)
             bpm_file == DarkBpmName(DarkLoc(g.ctype), g.cfilt, g.DIT)
             rows1 == StoreProduct(st.rows, dark_file, g.cfiles[1], TRUE, "IRD_MASTER_DARK")
             rows2 == StoreProduct(rows1, bpm_file, g.cfiles[1], FALSE,
                                   "IRD_STATIC_BADPIXELMAP")
         IN  IF fail_at = 1
             THEN [st EXCEPT !.sof = sof2, !.failed = TRUE]
             ELSE DarkLoop(Tail(gs), [rows |-> rows2, sof |-> sof2,
                                      calib |-> st.calib \cup {dark_file, bpm_file},
                                      failed |-> FALSE], fail_at - 1)

sph_ird_cal_dark ==
    /\ CanCall("sph_ird_cal_dark")
    /\ IF ~Executable("sph_ird_cal_dark")
       THEN GatedReturn("sph_ird_cal_dark")
       ELSE LET gs == DarkGroups(files_info.rows)
            IN  \E fail_at \in 0..(IF MayFail THEN Len(gs) ELSE 0) :
                LET end == DarkLoop(gs, [rows |-> files_info.rows, sof |-> sof_files,
                                         calib |-> calib_fits, failed |-> FALSE], fail_at)
                IN  /\ files_info' = Frame(end.rows)
                    /\ sof_files' = end.sof
                    /\ calib_fits' = end.calib
                    /\ IF end.failed
                       THEN /\ UpdateStatus(<<<<"sph_ird_cal_dark", ERROR>>>>, "run")
                            /\ UNCHANGED <<status, files_csv>>
                       ELSE /\ files_csv' = ToCsv(Frame(end.rows))
                            /\ UpdateStatus(<<<<"sph_ird_cal_dark", SUCCESS>>>>, "run")
                            /\ status' = INCOMPLETE
                    /\ Called("sph_ird_cal_dark", TRUE, "returned", ~end.failed)
                    /\ UNCHANGED <<raw, frames_info, frames_info_preproc, frames_csv,
                                   frames_preproc_csv, preproc_fits, products>>

(* the filter combinations of the flat loop with their raw flats, in loop order *)
FlatGroups(rows) ==
    LET calibs == SelectSeq(rows, LAMBDA r : ~r.processed /\ r.type = "FLAT,LAMP")
        filter_combs == Unique([k \in 1..Len(calibs) |-> calibs[k].filt])
    IN  [n \in 1..Len(filter_combs) |->
           [cfilt |-> filter_combs[n],
            cfiles |-> SelectSeq(calibs, LAMBDA r : r.filt = filter_combs[n])]]

RECURSIVE FlatLoop(_, _, _)
FlatLoop(gs, st, fail_at) ==
    IF gs = <<>> THEN st
    ELSE LET g == gs[1]
             sof2 == WriteSof(st.sof, FlatSof(g.cfilt),
                              [k \in 1..Len(g.cfiles) |-> g.cfiles[k].name])
             flat_file == FlatName(g.cfilt)
             bpm_file == FlatBpmName(g.cfilt)
             rows1 == StoreProduct(st.rows, flat_file, g.cfiles[1], TRUE, "IRD_FLAT_FIELD")
             rows2 == StoreProduct(rows1, bpm_file, g.cfiles[1], FALSE,
                                   "IRD_NON_LINEAR_BADPIXELMAP")
         IN  IF fail_at = 1
             THEN [st EXCEPT !.sof = sof2, !.failed = TRUE]
             ELSE FlatLoop(Tail(gs), [rows |-> rows2, sof |-> sof2,
                                      calib |-> st.calib \cup {flat_file, bpm_file},
                                      failed |-> FALSE], fail_at - 1)

sph_ird_cal_detector_flat ==
    /\ CanCall("sph_ird_cal_detector_flat")
    /\ IF ~Executable("sph_ird_cal_detector_flat")
       THEN GatedReturn("sph_ird_cal_detector_flat")
       ELSE LET gs == FlatGroups(files_info.rows)
            IN  \E fail_at \in 0..(IF MayFail THEN Len(gs) ELSE 0) :
                LET end == FlatLoop(gs, [rows |-> files_info.rows, sof |-> sof_files,
                                         calib |-> calib_fits, failed |-> FALSE], fail_at)
                IN  /\ files_info' = Frame(end.rows)
                    /\ sof_files' = end.sof
                    /\ calib_fits' = end.calib
                    /\ IF end.failed
                       THEN /\ UpdateStatus(<<<<"sph_ird_cal_detector_flat", ERROR>>>>, "run")
                            /\ UNCHANGED <<status, files_csv>>
                       ELSE /\ files_csv' = ToCsv(Frame(end.rows))
                            /\ UpdateStatus(<<<<"sph_ird_cal_detector_flat", SUCCESS>>>>,
                                            "run")
                            /\ status' = INCOMPLETE
                    /\ Called("sph_ird_cal_detector_flat", TRUE, "returned", ~end.failed)
                    /\ UNCHANGED <<raw, frames_info, frames_info_preproc, frames_csv,
                                   frames_preproc_csv, preproc_fits, products>>

MaskedFile(name) == <<name, 0, "masked">>

(* the inputs sph_ird_cal_wave looks up in the catalog *)
WaveInputs(rows) ==
    LET wave_file == SelectSeq(rows, LAMBDA r : ~r.processed /\ r.type = "LAMP,WAVE")
        DIT == IF wave_file = <<>> THEN NaN ELSE wave_file[1].dit
    IN  [wave_file |-> wave_file,
         dark_file |-> SelectSeq(rows, LAMBDA r : r.processed
                                   /\ r.procatg = "IRD_MASTER_DARK" /\ r.catg = "CALIB"
                                   /\ r.dit # NaN /\ Round2(r.dit) = DIT),
         flat_file |-> SelectSeq(rows, LAMBDA r : r.processed
                                   /\ r.procatg = "IRD_FLAT_FIELD"),
         bpm_file |-> SelectSeq(rows, LAMBDA r : r.processed
                                  /\ r.procatg = "IRD_NON_LINEAR_BADPIXELMAP")]

(* the variant without the check of the flat field *)
WaveInputErrorNoFlat(in) ==
    \/ Len(in.wave_file) # 1
    \/ Len(in.dark_file) = 0

(* the input checks of sph_ird_cal_wave that end the recipe with ERROR *)
WaveInputError(in) ==
    \/ Len(in.wave_file) # 1
    \/ Len(in.dark_file) = 0
    \/ Len(in.flat_file) = 0

sph_ird_cal_wave ==
    /\ CanCall("sph_ird_cal_wave")
    /\ IF ~Executable("sph_ird_cal_wave")
       THEN GatedReturn("sph_ird_cal_wave")
       ELSE LET in == WaveInputs(files_info.rows)
                filter_comb == in.wave_file[1].filt
                sof == [k \in 1..4 |-> <<in.wave_file, in.dark_file, in.flat_file,
                                         in.bpm_file>>[k][1].name]
                rows2 == StoreProduct(files_info.rows, WaveName, in.wave_file[1], TRUE,
                                      "IRD_WAVECALIB")
            IN  IF WaveInputError(in)
                THEN /\ UpdateStatus(<<<<"sph_ird_cal_wave", ERROR>>>>, "run")
                     /\ Called("sph_ird_cal_wave", TRUE, "returned", TRUE)
                     /\ UNCHANGED <<raw, status, memVars, diskVars>>
                ELSE IF filter_comb \in {"S_LR", "S_MR"} /\ in.bpm_file = <<>>
                THEN /\ Called("sph_ird_cal_wave", TRUE, "raised", TRUE)
                     /\ preproc_fits' = IF filter_comb = "S_MR"
                                        THEN preproc_fits
                                             \cup {MaskedFile(in.wave_file[1].name)}
                                        ELSE preproc_fits
                     /\ UNCHANGED <<raw, status, recipes_status, validated, memVars,
                                    files_csv, frames_csv, frames_preproc_csv, calib_fits,
                                    sof_files, products>>
                ELSE \E esorex_found \in {TRUE, ~MayFail}, esorex_ok \in {TRUE, ~MayFail} :
                     LET known == filter_comb \in {"S_LR", "S_MR"}
                         pre == IF filter_comb = "S_MR"
                                THEN preproc_fits \cup {MaskedFile(in.wave_file[1].name)}
                                ELSE preproc_fits
                         sofs == IF known THEN WriteSof(sof_files, WaveSof, sof)
                                 ELSE sof_files
                     IN  IF ~esorex_found \/ (known /\ ~esorex_ok)
                         THEN /\ UpdateStatus(<<<<"sph_ird_cal_wave", ERROR>>>>, "run")
                              /\ Called("sph_ird_cal_wave", TRUE, "returned", FALSE)
                              /\ preproc_fits' = pre
                              /\ sof_files' = sofs
                              /\ UNCHANGED <<raw, status, memVars, files_csv, frames_csv,
                                             frames_preproc_csv, calib_fits, products>>
                         ELSE IF ~known
                         THEN /\ Called("sph_ird_cal_wave", TRUE, "raised", TRUE)
                              /\ UNCHANGED <<raw, status, recipes_status, validated,
                                             memVars, diskVars>>
                         ELSE /\ files_info' = Frame(rows2)
                              /\ files_csv' = ToCsv(Frame(rows2))
                              /\ calib_fits' = calib_fits \cup {WaveName}
                              /\ preproc_fits' = pre \cup {WAVELENGTH_DEFAULT}
                              /\ sof_files' = sofs
                              /\ UpdateStatus(<<<<"sph_ird_cal_wave", SUCCESS>>>>, "run")
                              /\ status' = INCOMPLETE
                              /\ Called("sph_ird_cal_wave", TRUE, "returned", TRUE)
                              /\ UNCHANGED <<raw, frames_info, frames_info_preproc,
                                             frames_csv, frames_preproc_csv, products>>

----------------------------------------------------------------------------
(* sph_ird_preprocess_science *)

SciTypes == <<"OBJECT,CENTER", "OBJECT,FLUX", "OBJECT">>
BackgroundTypes == <<"SKY", "DARK,BACKGROUND", "DARK">>

RECURSIVE SortByT(_)
(* sort_values(by = 'TIME') *)
SortByT(S) ==
    IF S = {} THEN <<>>
    ELSE LET first == CHOOSE x \in S : \A y \in S : x.t <= y.t
         IN  <<first>> \o SortByT(S \ {first})

(* the (type, DIT) groups of science files, in loop order *)
PreprocGroups(rows) ==
    LET of(typ) == SelectSeq(rows, LAMBDA r : r.catg = "SCIENCE" /\ r.type = typ)
        dits(typ) == Unique([k \in 1..Len(of(typ)) |-> Round2(of(typ)[k].dit)])
        groups(typ) == [k \in 1..Len(dits(typ)) |->
                          [typ |-> typ, DIT |-> dits(typ)[k],
                           sfiles |-> SelectSeq(of(typ),
                                                LAMBDA r : Round2(r.dit) = dits(typ)[k])]]
    IN  groups(SciTypes[1]) \o groups(SciTypes[2]) \o groups(SciTypes[3])

(* the variant that looks for the master darks of the internal lamp first *)
BackgroundDarkFirst(rows, DIT) ==
    LET of(d) == SelectSeq(rows, LAMBDA r : r.procatg = "IRD_MASTER_DARK" /\ r.type = d
                                            /\ r.dit # NaN /\ Round2(r.dit) = DIT)
    IN  IF of(BackgroundTypes[3]) # <<>> THEN of(BackgroundTypes[3])
        ELSE IF of(BackgroundTypes[2]) # <<>> THEN of(BackgroundTypes[2])
        ELSE of(BackgroundTypes[1])

(* the master darks found for DIT: sky first, then background, then dark *)
Background(rows, DIT) ==
    LET of(d) == SelectSeq(rows, LAMBDA r : r.procatg = "IRD_MASTER_DARK" /\ r.type = d
                                            /\ r.dit # NaN /\ Round2(r.dit) = DIT)
    IN  IF of(BackgroundTypes[1]) # <<>> THEN of(BackgroundTypes[1])
        ELSE IF of(BackgroundTypes[2]) # <<>> THEN of(BackgroundTypes[2])
        ELSE of(BackgroundTypes[3])

Collapsed(typ, p) ==
    IF typ = "OBJECT,CENTER" THEN p.collapse_center
    ELSE IF typ = "OBJECT,FLUX" THEN p.collapse_psf
    ELSE p.collapse_science

RECURSIVE PreprocFiles(_, _, _, _)
(* the loop over the files of one group; st = [fits, rows, end, left], where left
   counts the files until collapse_frames_info fails (0: never) and bkg lists
   the background taken for each group *)
PreprocFiles(sfiles, typ, p, st) ==
    IF sfiles = <<>> \/ st.end # "ok" THEN st
    ELSE LET f == sfiles[1]
             finfo == SelectSeq(frames_info.rows, LAMBDA r : r.file = f.name)
             in_raw == \E h \in raw.files : h.name = f.name
             added == IF Collapsed(typ, p) THEN <<[finfo[1] EXCEPT !.img = 0]>> ELSE finfo
             nimg == IF Collapsed(typ, p) THEN 1 ELSE f.ndit
             written == {PreprocFile(f.name, k) : k \in 0..(nimg - 1)}
         IN  IF finfo = <<>> \/ ~in_raw
             THEN [st EXCEPT !.end = "raised"]
             ELSE IF st.left = 1
             THEN [st EXCEPT !.end = "error", !.left = 0]
             ELSE PreprocFiles(Tail(sfiles), typ, p,
                               [fits |-> st.fits \cup written, rows |-> st.rows \o added,
                                end |-> "ok", bkg |-> st.bkg,
                                left |-> IF st.left = 0 THEN 0 ELSE st.left - 1])

RECURSIVE PreprocLoop(_, _, _)
PreprocLoop(gs, p, st) ==
    IF gs = <<>> \/ st.end # "ok" THEN st
    ELSE LET g == gs[1]
             dfiles == Background(files_info.rows, g.DIT)
             bkg == [typ |-> g.typ, DIT |-> g.DIT,
                     how |-> IF ~p.subtract_background THEN "off"
                             ELSE IF dfiles = <<>> THEN "zero"
                             ELSE IF Len(dfiles) = 1 THEN "file"
                             ELSE "many",
                     file |-> IF p.subtract_background /\ Len(dfiles) = 1
                              THEN dfiles[1].name ELSE NoName]
             st1 == [st EXCEPT !.bkg = Append(@, bkg)]
         IN  IF p.subtract_background /\ Len(dfiles) > 1
             THEN [st1 EXCEPT !.end = "error"]
             ELSE IF p.subtract_background /\ Len(dfiles) = 1
                     /\ dfiles[1].name \notin calib_fits
             THEN [st1 EXCEPT !.end = "raised"]
             ELSE PreprocLoop(Tail(gs), p, PreprocFiles(g.sfiles, g.typ, p, st1))

(* the whole recipe body from the cleaned preproc directory *)
Preprocess(p, fail_at) ==
    LET cleaned == {x \in preproc_fits : x[3] # "preproc"}
        sci == SelectSeq(files_info.rows, LAMBDA r : r.catg = "SCIENCE")
        filter_comb == sci[1].filt
        bpm_files == SelectSeq(files_info.rows,
                               LAMBDA r : r.procatg \in {"IRD_STATIC_BADPIXELMAP",
                                                         "IRD_NON_LINEAR_BADPIXELMAP"})
        flat_file == SelectSeq(files_info.rows,
                               LAMBDA r : r.processed /\ r.procatg = "IRD_FLAT_FIELD"
                                          /\ r.filt = filter_comb)
        start == [fits |-> cleaned, rows |-> <<>>, end |-> "ok", left |-> fail_at,
                  bkg |-> <<>>]
    IN  IF p.fix_badpix /\ bpm_files = <<>>
        THEN [start EXCEPT !.end = "error"]
        ELSE IF p.fix_badpix /\ \E k \in 1..Len(bpm_files) : bpm_files[k].name \notin calib_fits
        THEN [start EXCEPT !.end = "raised"]
        ELSE IF Len(flat_file) # 1
        THEN [start EXCEPT !.end = "error"]
        ELSE IF flat_file[1].name \notin calib_fits
        THEN [start EXCEPT !.end = "raised"]
        ELSE PreprocLoop(PreprocGroups(files_info.rows), p, start)

PreprocParams ==
    [subtract_background : BOOLEAN, fix_badpix : BOOLEAN, collapse_science : BOOLEAN,
     collapse_psf : {TRUE}, collapse_center : {TRUE}]

NScienceFiles == Len(SelectSeq(files_info.rows, IsScienceFile))

sph_ird_preprocess_science ==
    /\ CanCall("sph_ird_preprocess_science")
    /\ IF ~Executable("sph_ird_preprocess_science")
       THEN GatedReturn("sph_ird_preprocess_science")
       ELSE \E p \in PreprocParams, fail_at \in 0..(IF MayFail THEN NScienceFiles ELSE 0) :
            LET end == Preprocess(p, fail_at)
                table == Frame(SortByT(Range(end.rows)))
                note == [NoNote EXCEPT !.bkg = end.bkg]
            IN  /\ preproc_fits' = end.fits
                /\ IF end.end = "ok"
                   THEN /\ frames_preproc_csv' = ToCsv(table)
                        /\ frames_info_preproc' = table
                        /\ UpdateStatus(<<<<"sph_ird_preprocess_science", SUCCESS>>>>, "run")
                        /\ status' = INCOMPLETE
                        /\ CalledNote("sph_ird_preprocess_science", TRUE, "returned",
                                      "ok", 0, 0, note)
                   ELSE IF end.end = "error"
                   THEN /\ UpdateStatus(<<<<"sph_ird_preprocess_science", ERROR>>>>, "run")
                        /\ CalledNote("sph_ird_preprocess_science", TRUE, "returned",
                                      IF fail_at = 0 THEN "ok" ELSE "fault", 0, 0, note)
                        /\ UNCHANGED <<status, frames_preproc_csv, frames_info_preproc>>
                   ELSE /\ CalledNote("sph_ird_preprocess_science", TRUE, "raised",
                                      "ok", 0, 0, note)
                        /\ UNCHANGED <<status, recipes_status, validated,
                                       frames_preproc_csv, frames_info_preproc>>
                /\ (fail_at # 0 => end.end = "error" /\ end.left = 0)
                /\ UNCHANGED <<raw, files_info, frames_info, files_csv, frames_csv,
                               calib_fits, sof_files, products>>

----------------------------------------------------------------------------
(* sph_ird_star_center and sph_ird_wavelength_recalibration *)

FramesOfType(frames, typ) == SelectSeq(frames.rows, LAMBDA r : r.type = typ)

(* the wavelength calibration product can be read: its row and its file exist *)
WaveCalibReadable ==
    \E i \in 1..Len(files_info.rows) :
        /\ files_info.rows[i].processed
        /\ files_info.rows[i].procatg = "IRD_WAVECALIB"
        /\ LET first == SelectSeq(files_info.rows,
                                  LAMBDA r : r.processed /\ r.procatg = "IRD_WAVECALIB")[1]
           IN  first.name \in calib_fits

(* the resolution-specific parameters are defined only for the two LSS filters *)
KnownFilter(frames) == frames.rows # <<>> /\ frames.rows[1].filt \in {"S_LR", "S_MR"}

RECURSIVE ReadWrite(_, _)
(* a loop of steps that each read the files needs and then write the files writes;
   st = [fits, end]; a missing input ends the loop by an exception *)
ReadWrite(steps, st) ==
    IF steps = <<>> \/ st.end # "ok" THEN st
    ELSE IF ~(steps[1].needs \subseteq st.fits)
    THEN [st EXCEPT !.end = "raised"]
    ELSE ReadWrite(Tail(steps), [st EXCEPT !.fits = @ \cup steps[1].writes])

StarCenterSteps(frames) ==
    LET flux == FramesOfType(frames, "OBJECT,FLUX")
        cen == FramesOfType(frames, "OBJECT,CENTER")
        starsci == SelectSeq(frames.rows, LAMBDA r : cen # <<>> /\ r.type = "OBJECT"
                                             /\ Round2(r.dit) = Round2(cen[1].dit))
    IN  [k \in 1..Len(flux) |->
           [needs |-> {PreprocFile(flux[k].file, flux[k].img)},
            writes |-> {CentersFile(flux[k].file, flux[k].img)}]]
        \o [k \in 1..Len(cen) |->
              [needs |-> {PreprocFile(cen[k].file, cen[k].img)}
                         \cup (IF starsci # <<>>
                               THEN {PreprocFile(starsci[1].file, cen[k].img)} ELSE {}),
               writes |-> {CentersFile(cen[k].file, cen[k].img),
                           SpotDistFile(cen[k].file, cen[k].img)}]]

sph_ird_star_center ==
    /\ CanCall("sph_ird_star_center")
    /\ IF ~Executable("sph_ird_star_center")
       THEN GatedReturn("sph_ird_star_center")
       ELSE LET frames == frames_info_preproc
                end == ReadWrite(StarCenterSteps(frames), [fits |-> preproc_fits, end |-> "ok"])
            IN  IF ~frames.set \/ ~WaveCalibReadable \/ ~KnownFilter(frames)
                THEN /\ Called("sph_ird_star_center", TRUE, "raised", TRUE)
                     /\ UNCHANGED <<raw, status, recipes_status, validated, memVars, diskVars>>
                ELSE /\ preproc_fits' = end.fits
                     /\ IF end.end = "ok"
                        THEN /\ UpdateStatus(<<<<"sph_ird_star_center", SUCCESS>>>>, "run")
                             /\ status' = INCOMPLETE
                             /\ Called("sph_ird_star_center", TRUE, "returned", TRUE)
                        ELSE /\ Called("sph_ird_star_center", TRUE, "raised", TRUE)
                             /\ UNCHANGED <<status, recipes_status, validated>>
                     /\ UNCHANGED <<raw, memVars, files_csv, frames_csv, frames_preproc_csv,
                                    calib_fits, sof_files, products>>

sph_ird_wavelength_recalibration ==
    /\ CanCall("sph_ird_wavelength_recalibration")
    /\ IF ~Executable("sph_ird_wavelength_recalibration")
       THEN GatedReturn("sph_ird_wavelength_recalibration")
       ELSE LET frames == frames_info_preproc
                removed == preproc_fits \ {WAVELENGTH_RECALIBRATED}
                cen == FramesOfType(frames, "OBJECT,CENTER")
            IN  IF ~frames.set \/ ~WaveCalibReadable \/ ~KnownFilter(frames)
                THEN /\ preproc_fits' = removed
                     /\ Called("sph_ird_wavelength_recalibration", TRUE, "raised", TRUE)
                     /\ UNCHANGED <<status, recipes_status, validated>>
                ELSE IF cen = <<>>
                THEN /\ preproc_fits' = removed
                     /\ Called("sph_ird_wavelength_recalibration", TRUE, "returned", TRUE)
                     /\ UNCHANGED <<status, recipes_status, validated>>
                ELSE IF SpotDistFile(cen[1].file, cen[1].img) \notin preproc_fits
                THEN /\ preproc_fits' = removed
                     /\ Called("sph_ird_wavelength_recalibration", TRUE, "raised", TRUE)
                     /\ UNCHANGED <<status, recipes_status, validated>>
                ELSE /\ preproc_fits' = removed \cup {WAVELENGTH_RECALIBRATED}
                     /\ UpdateStatus(<<<<"sph_ird_wavelength_recalibration", SUCCESS>>>>, "run")
                     /\ status' = INCOMPLETE
                     /\ Called("sph_ird_wavelength_recalibration", TRUE, "returned", TRUE)
    /\ UNCHANGED <<raw, memVars, files_csv, frames_csv, frames_preproc_csv, calib_fits,
                   sof_files, products>>

----------------------------------------------------------------------------
(* sph_ird_combine_data *)

AbsDiff(a, b) == IF a >= b THEN a - b ELSE b - a

(* the variant that takes the last candidate for 'first' too *)
CenterIndexFromEnd(starcen, center_selection, time_sci) ==
    IF center_selection \in {"first", "last"} THEN Len(starcen)
    ELSE IF center_selection = "time"
    THEN CHOOSE k \in 1..Len(starcen) :
            /\ \A j \in 1..Len(starcen) :
                  AbsDiff(time_sci, starcen[k].time) <= AbsDiff(time_sci, starcen[j].time)
            /\ \A j \in 1..(k - 1) :
                  AbsDiff(time_sci, starcen[j].time) > AbsDiff(time_sci, starcen[k].time)
    ELSE 0

(* the variant that takes the last of the nearest candidates for 'time' *)
CenterIndexLatestTie(starcen, center_selection, time_sci) ==
    IF center_selection = "first" THEN 1
    ELSE IF center_selection = "last" THEN Len(starcen)
    ELSE IF center_selection = "time"
    THEN CHOOSE k \in 1..Len(starcen) :
            /\ \A j \in 1..Len(starcen) :
                  AbsDiff(time_sci, starcen[k].time) <= AbsDiff(time_sci, starcen[j].time)
            /\ \A j \in (k + 1)..Len(starcen) :
                  AbsDiff(time_sci, starcen[j].time) > AbsDiff(time_sci, starcen[k].time)
    ELSE 0

(* the position (from 1) in starcen of the OBJECT,CENTER frame chosen for a science
   frame of acquisition time time_sci; 0 for an unknown selection *)
CenterIndex(starcen, center_selection, time_sci) ==
    IF center_selection = "first" THEN 1
    ELSE IF center_selection = "last" THEN Len(starcen)
    ELSE IF center_selection = "time"
    THEN CHOOSE k \in 1..Len(starcen) :
            /\ \A j \in 1..Len(starcen) :
                  AbsDiff(time_sci, starcen[k].time) <= AbsDiff(time_sci, starcen[j].time)
            /\ \A j \in 1..(k - 1) :
                  AbsDiff(time_sci, starcen[j].time) > AbsDiff(time_sci, starcen[k].time)
    ELSE 0

(* the status sph_ird_combine_data leaves the reduction in when it succeeds *)
CombineStatus == COMPLETE

(* the variant that never takes the manual center *)
ManualCenterIgnored(manual_center) == FALSE

(* the recipe takes the manual center in place of the centers files (lines 2258
   and 2365) *)
ManualCenterGiven(manual_center) == manual_center # "none"

(* the variant that reads the default wavelength calibration first *)
WavelengthFileDefaultFirst(fits) ==
    IF WAVELENGTH_DEFAULT \in fits THEN "wavelength_default"
    ELSE IF WAVELENGTH_RECALIBRATED \in fits THEN "wavelength_recalibrated"
    ELSE ""

(* the wavelength calibration sph_ird_combine_data reads: the recalibrated one,
   else the default one with the warning 'Using default wavelength
   calibration.', else none *)
WavelengthFile(fits) ==
    IF WAVELENGTH_RECALIBRATED \in fits THEN "wavelength_recalibrated"
    ELSE IF WAVELENGTH_DEFAULT \in fits THEN "wavelength_default"
    ELSE ""

(* the three sections of the recipe over the frames; st = [fits, products, end] *)
Combine(frames, manual_center, center_selection) ==
    LET flux == FramesOfType(frames, "OBJECT,FLUX")
        cen == FramesOfType(frames, "OBJECT,CENTER")
        obj == FramesOfType(frames, "OBJECT")
        readable(rows) == \A k \in 1..Len(rows) :
                             PreprocFile(rows[k].file, rows[k].img) \in preproc_fits
        centered(rows) == \A k \in 1..Len(rows) :
                             CentersFile(rows[k].file, rows[k].img) \in preproc_fits
        chosen(k) == CenterIndex(cen, center_selection, obj[k].time)
        (* the first OBJECT frame that stops the loop, and how *)
        stop(k) == IF ManualCenterGiven(manual_center) THEN "ok"
                   ELSE IF cen = <<>> THEN "raised"
                   ELSE IF chosen(k) = 0 THEN "error"
                   ELSE IF CentersFile(cen[chosen(k)].file, cen[chosen(k)].img)
                              \notin preproc_fits THEN "raised"
                   ELSE "ok"
        objend == IF obj = <<>> THEN "ok"
                  ELSE IF stop(1) # "ok" THEN stop(1)
                  ELSE IF ~readable(obj) THEN "raised"
                  ELSE "ok"
        taken(c) == [how |-> "file", file |-> c.file, img |-> c.img, time |-> c.time]
        manual == [how |-> "manual", file |-> NoName, img |-> 0, time |-> 0]
        cencenters == [k \in 1..Len(cen) |->
                         IF ManualCenterGiven(manual_center) THEN manual
                         ELSE taken(cen[k])]
        objcenters == [k \in 1..Len(obj) |->
                         IF ManualCenterGiven(manual_center) THEN manual
                         ELSE taken(cen[chosen(k)])]
        note(c, o) == [manual |-> manual_center, selection |-> center_selection,
                       center |-> c, object |-> o, wave |-> WavelengthFile(preproc_fits),
                       bkg |-> <<>>]
        p0 == products \cup {"wavelength"}
        p1 == IF flux # <<>> THEN p0 \cup {"psf"} ELSE p0
        p2 == IF cen # <<>> THEN p1 \cup {"starcenter"} ELSE p1
        p3 == IF obj # <<>> THEN p2 \cup {"science"} ELSE p2
    IN  IF ~frames.set \/ frames.rows = <<>>
        THEN [products |-> products, end |-> "raised",
              note |-> [note(<<>>, <<>>) EXCEPT !.wave = ""]]
        ELSE IF WavelengthFile(preproc_fits) = ""
        THEN [products |-> products, end |-> "error", note |-> note(<<>>, <<>>)]
        ELSE IF ~KnownFilter(frames)
        THEN [products |-> products, end |-> "raised", note |-> note(<<>>, <<>>)]
        ELSE IF manual_center = "invalid"
        THEN [products |-> p0, end |-> "error", note |-> note(<<>>, <<>>)]
        ELSE IF ~readable(flux)
        THEN [products |-> p0, end |-> "raised", note |-> note(<<>>, <<>>)]
        ELSE IF ~readable(cen) \/ (~ManualCenterGiven(manual_center) /\ ~centered(cen))
        THEN [products |-> p1, end |-> "raised", note |-> note(<<>>, <<>>)]
        ELSE IF objend # "ok"
        THEN [products |-> p2, end |-> objend,
              note |-> note(cencenters, IF obj # <<>> /\ stop(1) = "ok" THEN objcenters
                                        ELSE <<>>)]
        ELSE [products |-> p3, end |-> "ok", note |-> note(cencenters, objcenters)]

ManualCenters == {"none", "valid", "invalid"}
CenterSelections == {"first", "last", "time", "other"}

sph_ird_combine_data ==
    /\ CanCall("sph_ird_combine_data")
    /\ IF ~Executable("sph_ird_combine_data")
       THEN GatedReturn("sph_ird_combine_data")
       ELSE \E manual_center \in ManualCenters, center_selection \in CenterSelections :
            /\ LET end == Combine(frames_info_preproc, manual_center, center_selection)
               IN  /\ products' = end.products
                   /\ IF end.end = "ok"
                      THEN /\ UpdateStatus(<<<<"sph_ird_combine_data", SUCCESS>>>>, "run")
                           /\ status' = CombineStatus
                           /\ CalledNote("sph_ird_combine_data", TRUE, "returned", "ok",
                                         0, 0, end.note)
                      ELSE IF end.end = "error"
                      THEN /\ UpdateStatus(<<<<"sph_ird_combine_data", ERROR>>>>, "run")
                           /\ CalledNote("sph_ird_combine_data", TRUE, "returned",
                                         IF manual_center = "invalid"
                                            \/ center_selection = "other"
                                         THEN "invalid" ELSE "ok", 0, 0, end.note)
                           /\ UNCHANGED status
                      ELSE /\ CalledNote("sph_ird_combine_data", TRUE, "raised", "ok",
                                         0, 0, end.note)
                           /\ UNCHANGED <<status, recipes_status, validated>>
                   /\ UNCHANGED <<raw, memVars, files_csv, frames_csv, frames_preproc_csv,
                                  preproc_fits, calib_fits, sof_files>>

----------------------------------------------------------------------------
(* sph_ird_clean *)

(* a clean-up that reports the reduction as finished *)
CleanStatusFinished == COMPLETE

(* the status sph_ird_clean leaves the reduction in *)
CleanStatus == INCOMPLETE

SphIrdClean ==
    IF ~Executable("sph_ird_clean")
    THEN GatedReturn("sph_ird_clean")
    ELSE \E delete_raw \in BOOLEAN, delete_products \in BOOLEAN :
            /\ files_csv' = None
            /\ frames_csv' = None
            /\ frames_preproc_csv' = None
            /\ preproc_fits' = {}
            /\ calib_fits' = {}
            /\ sof_files' = {}
            /\ products' = IF delete_products THEN {} ELSE products
            /\ raw' = IF delete_raw THEN [exists |-> FALSE, files |-> {}] ELSE raw
            /\ UpdateStatus(<<<<"sph_ird_clean", SUCCESS>>>>, "run")
            /\ status' = CleanStatus
            /\ Called("sph_ird_clean", TRUE, "returned", TRUE)
            /\ UNCHANGED memVars

sph_ird_clean ==
    /\ CanCall("sph_ird_clean")
    /\ SphIrdClean

----------------------------------------------------------------------------
(* the methods that chain recipes: each call below is made in turn, an exception
   in one of them ends the chain *)

InitReduction == <<"sort_files", "sort_frames", "check_files_association">>
StaticCalibrations == <<"sph_ird_cal_dark", "sph_ird_cal_detector_flat", "sph_ird_cal_wave">>
PreprocessScience == <<"sph_ird_preprocess_science">>
ProcessScience == <<"sph_ird_star_center", "sph_ird_wavelength_recalibration",
                    "sph_ird_combine_data">>
FullReduction ==
    InitReduction \o StaticCalibrations \o PreprocessScience \o ProcessScience
    \o <<"clean">>

(* the session is as the constructor left it after a clean start *)
FreshSession ==
    /\ lastCall.op = "__new__"
    /\ ~files_csv.set /\ ~frames_csv.set /\ ~frames_preproc_csv.set
    /\ preproc_fits = {} /\ calib_fits = {}

Chain(method, todo) ==
    /\ used.steps + Len(todo) <= MaxSteps
    /\ driver' = [todo |-> todo, active |-> TRUE, ok |-> TRUE, valid |-> TRUE,
                  fresh |-> FreshSession, method |-> method, data |-> raw.files]
    /\ lastCall' = [op |-> method, ran |-> TRUE, result |-> "returned", warn |-> 0,
                    err |-> 0, again |-> (lastCall.op = method), note |-> NoNote]
    /\ used' = [used EXCEPT !.calls = @ + 1]
    /\ UNCHANGED <<raw, status, recipes_status, validated, memVars, diskVars, sparta, ifs>>

init_reduction ==
    /\ CanCall("init_reduction")
    /\ Chain("init_reduction", InitReduction)

create_static_calibrations ==
    /\ CanCall("create_static_calibrations")
    /\ Chain("create_static_calibrations", StaticCalibrations)

preprocess_science ==
    /\ CanCall("preprocess_science")
    /\ Chain("preprocess_science", PreprocessScience)

process_science ==
    /\ CanCall("process_science")
    /\ Chain("process_science", ProcessScience)

(* clean calls sph_ird_clean when the configuration asks for it *)
clean ==
    /\ CanCall("clean")
    /\ \E config_clean \in BOOLEAN :
          IF config_clean
          THEN (InFullReduction \/ used.steps < MaxSteps) /\ SphIrdClean
          ELSE /\ Called("clean", TRUE, "returned", TRUE)
               /\ UNCHANGED <<raw, status, recipes_status, validated, memVars, diskVars>>

full_reduction ==
    /\ CanCall("full_reduction")
    /\ Chain("full_reduction", FullReduction)

----------------------------------------------------------------------------
(* sphere/SPARTA.py: the reduction of the SPARTA files of the same directory
   layout. Its session is the record sparta: the number of FITS files under
   raw/ and whether raw/ exists, self._status, self._recipes_status (a dictionary: only the recipes written
   so far are keys), whether self._files_info is set, the files under products/,
   the method called last and how it ended, and the sessions and calls so far *)

sparta_recipe_requirements ==
    [sort_files |-> {},
     sph_sparta_dtts |-> {"sort_files"},
     sph_sparta_wfs_parameters |-> {"sort_files"},
     sph_sparta_atmospheric_parameters |-> {"sort_files"},
     sph_sparta_query_databases |-> {"sort_file", "sph_sparta_dtts"},
     sph_ifs_clean |-> {}]

(* Reduction._update_recipe_status on the dictionary rs *)
SpartaUpdate(rs, recipe, st) ==
    [x \in DOMAIN rs \cup {recipe} |-> IF x = recipe THEN st ELSE rs[x]]

(* Reduction._read_info: the statuses it writes over rs from the files under
   products/; visloop and irloop are set to False and never to True *)
SpartaReadInfo(rs, prod) ==
    LET visloop == FALSE
        irloop == FALSE
        rs1 == IF "files.csv" \in prod THEN SpartaUpdate(rs, "sort_files", SUCCESS) ELSE rs
        rs2 == IF "dtts_frames.csv" \in prod
               THEN SpartaUpdate(rs1, "sph_sparta_dtts", SUCCESS) ELSE rs1
        rs3 == SpartaUpdate(rs2, "sph_sparta_wfs_parameters",
                            IF visloop /\ irloop THEN SUCCESS ELSE NOTSET)
    IN  IF "atmospheric_frames.csv" \in prod
        THEN SpartaUpdate(rs3, "sph_sparta_atmospheric_parameters", SUCCESS)
        ELSE rs3

(* Reduction.__new__ on a directory with n raw files and the products prod *)
SpartaNew(n, prod, sessions) ==
    [raw |-> n, rawdir |-> TRUE, status |-> INCOMPLETE, recipes_status |-> SpartaReadInfo(<<>>, prod),
     files_info |-> ("files.csv" \in prod), products |-> prod,
     op |-> "__new__", result |-> "returned", sessions |-> sessions, steps |-> 0]

(* the outcomes of the gate of a SPARTA recipe. For a recipe that the
   requirements do not list, the lookup either fails ("raised", a KeyError) or
   finds nothing required ("open") *)
SpartaGate(recipe) ==
    IF sparta.status = FATAL THEN {"gated"}
    ELSE IF recipe \notin DOMAIN sparta_recipe_requirements THEN {"raised", "open"}
    ELSE IF recipe_executable(sparta.recipes_status, sparta.status, recipe,
                              sparta_recipe_requirements)
    THEN {"open"} ELSE {"gated"}

SpartaReturn(op, result, st, rs, fi, prod) ==
    /\ sparta.steps < MaxSteps
    /\ sparta' = [sparta EXCEPT !.status = st, !.recipes_status = rs, !.files_info = fi,
                                !.products = prod, !.op = op, !.result = result,
                                !.steps = @ + 1]
    /\ UNCHANGED <<irdisVars, ifs>>

SpartaNoChange(op, result) ==
    SpartaReturn(op, result, sparta.status, sparta.recipes_status, sparta.files_info,
                 sparta.products)

sparta_new ==
    /\ sparta.rawdir
    /\ sparta.sessions < MaxSessions
    /\ sparta' = SpartaNew(sparta.raw, sparta.products, sparta.sessions + 1)
    /\ UNCHANGED <<irdisVars, ifs>>

sparta_sort_files ==
    LET rs == SpartaUpdate(sparta.recipes_status, "sort_files", NOTSET)
    IN  IF sparta.raw = 0
        THEN SpartaReturn("sort_files", "returned", FATAL,
                          SpartaUpdate(rs, "sort_files", ERROR), sparta.files_info,
                          sparta.products)
        ELSE SpartaReturn("sort_files", "returned", INCOMPLETE,
                          SpartaUpdate(rs, "sort_files", SUCCESS), TRUE,
                          sparta.products \cup {"files.csv"})

(* a recipe that builds one table and saves it with its files; compute_angles
   may return ERROR *)
SpartaRecipe(recipe, saved) ==
    \E gate \in SpartaGate(recipe) :
        IF gate # "open" THEN SpartaNoChange(recipe, gate)
        ELSE \E ret \in {SUCCESS, ERROR} :
               IF ret = ERROR
               THEN SpartaReturn(recipe, "returned", FATAL,
                                 SpartaUpdate(sparta.recipes_status, "sort_frames", ERROR),
                                 sparta.files_info, sparta.products)
               ELSE SpartaReturn(recipe, "returned", INCOMPLETE,
                                 SpartaUpdate(sparta.recipes_status, recipe, SUCCESS),
                                 sparta.files_info, sparta.products \cup saved)

sph_sparta_dtts ==
    /\ sparta.steps < MaxSteps
    /\ SpartaRecipe("sph_sparta_dtts", {"dtts_frames.csv", "dtts_cube.fits"})

sph_sparta_wfs_parameters ==
    LET gates == SpartaGate("sph_sparta_wfs_parameters")
        failed(prod) ==
            SpartaReturn("sph_sparta_wfs_parameters", "returned", FATAL,
                         SpartaUpdate(sparta.recipes_status, "sort_frames", ERROR),
                         sparta.files_info, prod)
    IN  \E gate \in gates :
        IF gate # "open" THEN SpartaNoChange("sph_sparta_wfs_parameters", gate)
        ELSE \E vis, ir \in {SUCCESS, ERROR} :
               IF vis = ERROR THEN failed(sparta.products)
               ELSE IF ir = ERROR THEN failed(sparta.products \cup {"visloop_frames.csv"})
               ELSE SpartaReturn("sph_sparta_wfs_parameters", "returned", INCOMPLETE,
                                 SpartaUpdate(sparta.recipes_status,
                                              "sph_sparta_wfs_parameters", SUCCESS),
                                 sparta.files_info,
                                 sparta.products \cup {"visloop_frames.csv",
                                                       "irloop_frames.csv"})

sph_sparta_atmospheric_parameters ==
    /\ sparta.steps < MaxSteps
    /\ SpartaRecipe("sph_sparta_atmospheric_parameters", {"atmosheric_frames.csv"})

sph_sparta_query_databases ==
    LET gates == SpartaGate("sph_sparta_query_databases")
    IN  \E gate \in gates :
        IF gate # "open" THEN SpartaNoChange("sph_sparta_query_databases", gate)
        ELSE SpartaReturn("sph_sparta_query_databases", "returned", COMPLETE,
                          SpartaUpdate(sparta.recipes_status, "sph_sparta_query_databases",
                                       SUCCESS),
                          sparta.files_info, sparta.products)

sph_sparta_clean ==
    LET gates == SpartaGate("sph_sparta_clean")
    IN  \E gate \in gates :
        IF gate # "open" THEN SpartaNoChange("sph_sparta_clean", gate)
        ELSE \E delete_raw, delete_products \in BOOLEAN :
               /\ sparta.steps < MaxSteps
               /\ sparta' = [sparta EXCEPT
                     !.raw = IF delete_raw THEN 0 ELSE @,
                     !.rawdir = @ /\ ~delete_raw,
                     !.products = IF delete_products THEN {} ELSE @,
                     !.recipes_status = SpartaUpdate(@, "sph_sparta_clean", SUCCESS),
                     !.status = INCOMPLETE,
                     !.op = "sph_sparta_clean", !.result = "returned", !.steps = @ + 1]
               /\ UNCHANGED <<irdisVars, ifs>>

----------------------------------------------------------------------------
----------------------------------------------------------------------------
(* the IFS prototype: sph_ifs_detector_flat *)

(* the lamps of the wavelength channels white, 1020, 1230, 1300 and 1550 nm, in
   the order of the loop *)
IfsLamps == <<5, 1, 2, 3, 4>>

(* the observing modes of the science files; the third has no short name *)
IfsModes == {"OBS_YJ", "OBS_H", "OBS_JH"}

(* the largest number of raw flats of one channel *)
MaxFlats == 3

NoFlats == [k \in DOMAIN IfsLamps |-> 0]

(* the module-level script: files.csv and calibs.csv are read; flats[k] is the
   number of unprocessed flats of channel k in the mode of the science files,
   calibs_info the product rows of the catalog and calibs_csv those of the file *)
IfsNew(mode, flats) ==
    [mode |-> mode, flats |-> flats, calibs_info |-> {}, calibs_csv |-> {},
     op |-> "__main__", result |-> "returned"]

IfsFlatRow(lamp) == [name |-> <<"master_detector_flat", lamp>>, procatg |-> "IFS_MASTER_DFF"]
IfsBpmRow(lamp) == [name |-> <<"dff_badpixels", lamp>>, procatg |-> "IFS_STATIC_BADPIXELMAP"]

RECURSIVE IfsFlatLoop(_, _, _)
(* the loop on wavelengths from channel k: a channel without flats is skipped,
   one with a number other than 2 raises, and the body of one with 2 flats ends
   with the return statement of the function *)
IfsFlatLoop(k, flats, rows) ==
    IF k > Len(IfsLamps) THEN [rows |-> rows, end |-> "done"]
    ELSE IF flats[k] = 0 THEN IfsFlatLoop(k + 1, flats, rows)
    ELSE IF flats[k] # 2 THEN [rows |-> rows, end |-> "raised"]
    ELSE [rows |-> rows \cup {IfsFlatRow(IfsLamps[k]), IfsBpmRow(IfsLamps[k])},
          end |-> "returned"]

sph_ifs_detector_flat ==
    /\ IF ifs.mode \notin {"OBS_YJ", "OBS_H"}
       THEN ifs' = [ifs EXCEPT !.op = "sph_ifs_detector_flat", !.result = "raised"]
       ELSE LET end == IfsFlatLoop(1, ifs.flats, ifs.calibs_info)
            IN  ifs' = [ifs EXCEPT !.op = "sph_ifs_detector_flat",
                                   !.calibs_info = end.rows,
                                   !.calibs_csv = IF end.end = "done" THEN end.rows ELSE @,
                                   !.result = IF end.end = "raised" THEN "raised"
                                              ELSE "returned"]
    /\ UNCHANGED <<irdisVars, sparta>>

Init ==
    /\ raw \in {[exists |-> TRUE, files |-> d] : d \in Datasets}
    /\ status = ReadInfoStatus
    /\ recipes_status = AllNotSet
    /\ files_info = None
    /\ frames_info = None
    /\ frames_info_preproc = None
    /\ files_csv = None
    /\ frames_csv = None
    /\ frames_preproc_csv = None
    /\ preproc_fits = {}
    /\ calib_fits = {}
    /\ sof_files = {}
    /\ products = {}
    /\ lastCall = [op |-> "__new__", ran |-> TRUE, result |-> "returned", warn |-> 0, err |-> 0,
                   again |-> FALSE, note |-> NoNote]
    /\ validated = NoEvidence
    /\ driver = Idle
    /\ used = [sessions |-> 1, faults |-> 0, calls |-> 0, steps |-> 0]
    /\ sparta = SpartaNew(1, {}, 1)
    /\ ifs = IfsNew("OBS_YJ", NoFlats)

Next ==
    \/ \E clean_start \in BOOLEAN : New(clean_start)
    \/ read_info
    \/ sort_files
    \/ sort_frames
    \/ check_files_association
    \/ sph_ird_cal_dark
    \/ sph_ird_cal_detector_flat
    \/ sph_ird_cal_wave
    \/ sph_ird_preprocess_science
    \/ sph_ird_star_center
    \/ sph_ird_wavelength_recalibration
    \/ sph_ird_combine_data
    \/ sph_ird_clean
    \/ init_reduction
    \/ create_static_calibrations
    \/ preprocess_science
    \/ process_science
    \/ clean
    \/ full_reduction

Spec == Init /\ [][Next]_vars

(* the SPARTA reduction on a raw directory with and without FITS files *)
InitSparta ==
    /\ raw = [exists |-> TRUE, files |-> DataEmpty]
    /\ status = ReadInfoStatus
    /\ recipes_status = AllNotSet
    /\ files_info = None
    /\ frames_info = None
    /\ frames_info_preproc = None
    /\ files_csv = None
    /\ frames_csv = None
    /\ frames_preproc_csv = None
    /\ preproc_fits = {}
    /\ calib_fits = {}
    /\ sof_files = {}
    /\ products = {}
    /\ lastCall = [op |-> "__new__", ran |-> TRUE, result |-> "returned", warn |-> 0, err |-> 0,
                   again |-> FALSE, note |-> NoNote]
    /\ validated = NoEvidence
    /\ driver = Idle
    /\ used = [sessions |-> 1, faults |-> 0, calls |-> 0, steps |-> 0]
    /\ sparta \in {SpartaNew(n, {}, 1) : n \in 0..1}
    /\ ifs = IfsNew("OBS_YJ", NoFlats)

(* the IFS prototype on the raw directories with up to MaxFlats flats in each
   wavelength channel *)
InitIfs ==
    /\ raw = [exists |-> TRUE, files |-> DataEmpty]
    /\ status = ReadInfoStatus
    /\ recipes_status = AllNotSet
    /\ files_info = None
    /\ frames_info = None
    /\ frames_info_preproc = None
    /\ files_csv = None
    /\ frames_csv = None
    /\ frames_preproc_csv = None
    /\ preproc_fits = {}
    /\ calib_fits = {}
    /\ sof_files = {}
    /\ products = {}
    /\ lastCall = [op |-> "__new__", ran |-> TRUE, result |-> "returned", warn |-> 0, err |-> 0,
                   again |-> FALSE, note |-> NoNote]
    /\ validated = NoEvidence
    /\ driver = Idle
    /\ used = [sessions |-> 1, faults |-> 0, calls |-> 0, steps |-> 0]
    /\ sparta = SpartaNew(1, {}, 1)
    /\ ifs \in {IfsNew(mode, flats) : mode \in IfsModes,
                                      flats \in [DOMAIN IfsLamps -> 0..MaxFlats]}

NextIfs ==
    \/ sph_ifs_detector_flat

SpecIfs == InitIfs /\ [][NextIfs]_vars

NextSparta ==
    \/ sparta_new
    \/ sparta_sort_files
    \/ sph_sparta_dtts
    \/ sph_sparta_wfs_parameters
    \/ sph_sparta_atmospheric_parameters
    \/ sph_sparta_query_databases
    \/ sph_sparta_clean

SpecSparta == InitSparta /\ [][NextSparta]_vars

(* the sorting, association and calibration recipes on the raw directories that
   exercise the association rules *)
InitAssoc ==
    /\ raw \in {[exists |-> TRUE, files |-> d] : d \in AssocDatasets}
    /\ status = ReadInfoStatus
    /\ recipes_status = AllNotSet
    /\ files_info = None
    /\ frames_info = None
    /\ frames_info_preproc = None
    /\ files_csv = None
    /\ frames_csv = None
    /\ frames_preproc_csv = None
    /\ preproc_fits = {}
    /\ calib_fits = {}
    /\ sof_files = {}
    /\ products = {}
    /\ lastCall = [op |-> "__new__", ran |-> TRUE, result |-> "returned", warn |-> 0, err |-> 0,
                   again |-> FALSE, note |-> NoNote]
    /\ validated = NoEvidence
    /\ driver = Idle
    /\ used = [sessions |-> 1, faults |-> 0, calls |-> 0, steps |-> 0]
    /\ sparta = SpartaNew(1, {}, 1)
    /\ ifs = IfsNew("OBS_YJ", NoFlats)

NextAssoc ==
    \/ sort_files
    \/ check_files_association
    \/ sph_ird_cal_dark
    \/ sph_ird_cal_detector_flat
    \/ sph_ird_cal_wave
    \/ create_static_calibrations

SpecAssoc == InitAssoc /\ [][NextAssoc]_vars

(* the recipes, alone and chained by full_reduction, on the raw directories with
   several OBJECT,CENTER files *)
InitCenter ==
    /\ raw \in {[exists |-> TRUE, files |-> d] : d \in CenterDatasets}
    /\ status = ReadInfoStatus
    /\ recipes_status = AllNotSet
    /\ files_info = None
    /\ frames_info = None
    /\ frames_info_preproc = None
    /\ files_csv = None
    /\ frames_csv = None
    /\ frames_preproc_csv = None
    /\ preproc_fits = {}
    /\ calib_fits = {}
    /\ sof_files = {}
    /\ products = {}
    /\ lastCall = [op |-> "__new__", ran |-> TRUE, result |-> "returned", warn |-> 0, err |-> 0,
                   again |-> FALSE, note |-> NoNote]
    /\ validated = NoEvidence
    /\ driver = Idle
    /\ used = [sessions |-> 1, faults |-> 0, calls |-> 0, steps |-> 0]
    /\ sparta = SpartaNew(1, {}, 1)
    /\ ifs = IfsNew("OBS_YJ", NoFlats)

NextCenter ==
    \/ sort_files
    \/ sort_frames
    \/ check_files_association
    \/ sph_ird_cal_dark
    \/ sph_ird_cal_detector_flat
    \/ sph_ird_cal_wave
    \/ sph_ird_preprocess_science
    \/ sph_ird_star_center
    \/ sph_ird_wavelength_recalibration
    \/ sph_ird_combine_data
    \/ sph_ird_clean
    \/ clean
    \/ full_reduction

SpecCenter == InitCenter /\ [][NextCenter]_vars

(* the sorting, calibration and preprocessing recipes, alone and chained, on the
   raw directories with several sources of background *)
InitBackground ==
    /\ raw \in {[exists |-> TRUE, files |-> d] : d \in BackgroundDatasets}
    /\ status = ReadInfoStatus
    /\ recipes_status = AllNotSet
    /\ files_info = None
    /\ frames_info = None
    /\ frames_info_preproc = None
    /\ files_csv = None
    /\ frames_csv = None
    /\ frames_preproc_csv = None
    /\ preproc_fits = {}
    /\ calib_fits = {}
    /\ sof_files = {}
    /\ products = {}
    /\ lastCall = [op |-> "__new__", ran |-> TRUE, result |-> "returned", warn |-> 0, err |-> 0,
                   again |-> FALSE, note |-> NoNote]
    /\ validated = NoEvidence
    /\ driver = Idle
    /\ used = [sessions |-> 1, faults |-> 0, calls |-> 0, steps |-> 0]
    /\ sparta = SpartaNew(1, {}, 1)
    /\ ifs = IfsNew("OBS_YJ", NoFlats)

NextBackground ==
    \/ sort_files
    \/ sort_frames
    \/ check_files_association
    \/ sph_ird_cal_dark
    \/ sph_ird_cal_detector_flat
    \/ sph_ird_cal_wave
    \/ sph_ird_preprocess_science
    \/ init_reduction
    \/ create_static_calibrations

SpecBackground == InitBackground /\ [][NextBackground]_vars

----------------------------------------------------------------------------
(* the properties *)

GatedRecipes == Recipes \ {"sort_files"}

PrerequisitesMet(r) == \A q \in recipe_requirements[r] : recipes_status[q] = SUCCESS

(* C1: for every gated recipe, the body runs in a call if and only if, at the moment
   of the call, the overall status is not FATAL and every recipe listed for it in
   recipe_requirements has status SUCCESS *)
C1_GateIff ==
    [][\A r \in GatedRecipes :
          lastCall'.op = r => (lastCall'.ran <=> (status # FATAL /\ PrerequisitesMet(r)))]_vars

(* the body of a recipe with four prerequisites has run and succeeded *)
C1_BodyRan ==
    /\ lastCall.op = "sph_ird_preprocess_science"
    /\ lastCall.ran
    /\ recipes_status["sph_ird_preprocess_science"] = SUCCESS

(* C2: a call of a gated recipe while one of its prerequisites is not SUCCESS leaves
   the in-memory tables, the persisted catalog files, every recipe status and the
   overall status unchanged (so it does not set the overall status to FATAL) *)
C2_GatedNoOp ==
    [][\A r \in GatedRecipes :
          (lastCall'.op = r /\ ~PrerequisitesMet(r))
          => UNCHANGED <<files_info, frames_info, frames_info_preproc, files_csv,
                         frames_csv, frames_preproc_csv, recipes_status, status>>]_vars

(* a recipe was refused on a session that has a catalog and is not FATAL *)
C2_Refused ==
    /\ lastCall.op \in GatedRecipes
    /\ lastCall.result = "gated"
    /\ status # FATAL
    /\ files_info.set /\ files_csv.set

(* C3: once the overall status of a session is FATAL, no later call of a recipe
   method (sort_files included) or of _read_info on that session executes a recipe
   body or changes the overall status *)
C3_FatalTerminal ==
    [][(status = FATAL /\ lastCall'.op # "__new__")
       => /\ status' = FATAL
          /\ ~(lastCall'.op \in Recipes /\ lastCall'.ran)]_vars

(* C4: whenever a recipe call returns with the recipe marked ERROR, the overall
   status is FATAL on return *)
C4_ErrorIsFatal ==
    [][\A r \in Recipes :
          (lastCall'.op = r /\ lastCall'.ran /\ lastCall'.result = "returned"
           /\ recipes_status'[r] = ERROR)
          => status' = FATAL]_vars

(* C5: in every reachable state a recipe with status SUCCESS has all its
   prerequisites at SUCCESS *)
C5_SuccessHasPrerequisites ==
    \A r \in Recipes : recipes_status[r] = SUCCESS => PrerequisitesMet(r)

(* C6: whenever the body of a recipe executes, each of its prerequisites has,
   earlier in the same session, completed with SUCCESS or been reconstructed as
   SUCCESS and has not since been reset or failed *)
C6_BodyAfterPrerequisites ==
    [][\A r \in Recipes :
          (lastCall'.op = r /\ lastCall'.ran)
          => \A q \in recipe_requirements[r] : validated[q] \in {"run", "reconstructed"}]_vars

(* a body has run on a prerequisite that was reconstructed, not run, in its session *)
C6_RanOnReconstructed ==
    /\ lastCall.op = "sort_frames"
    /\ lastCall.ran
    /\ validated["sort_files"] = "reconstructed"

(* C7: the overall status becomes COMPLETE only in a call of sph_ird_combine_data
   whose body ran and left the recipe at SUCCESS *)
C7_CompleteOnlyFromCombine ==
    [][(status' = COMPLETE /\ status # COMPLETE)
       => /\ lastCall'.op = "sph_ird_combine_data"
          /\ lastCall'.ran
          /\ recipes_status'["sph_ird_combine_data"] = SUCCESS]_vars

(* the combination has just completed the reduction *)
C7_Completed ==
    /\ status = COMPLETE
    /\ lastCall.op = "sph_ird_combine_data"
    /\ "science" \in products

(* C8: a newly constructed session, on which no recipe has been attempted yet, has
   overall status INIT *)
C8_NewSessionInit == lastCall.op = "__new__" => status = INIT

(* a dataset of one instrument configuration with its mandatory calibrations and an
   OBJECT,CENTER frame *)
WellFormed(data) ==
    /\ \A h \in data : h.arm = "IRDIS" /\ h.mode = "LSS"
    /\ Cardinality({h \in data : h.type = "FLAT,LAMP"}) >= 2
    /\ Cardinality({h \in data : h.type = "LAMP,WAVE"}) = 1
    /\ \E h \in data : h.type = "DARK"
    /\ \E h \in data : h.type = "OBJECT,CENTER"
    /\ \E h \in data : h.catg = "SCIENCE" /\ h.type = "OBJECT"

(* full_reduction has returned, having started on a fresh session over a well-formed
   dataset with a valid configuration, and every external call succeeded *)
FullReductionReturned ==
    /\ driver.active /\ driver.method = "full_reduction" /\ driver.todo = <<>>
    /\ driver.fresh /\ driver.ok /\ driver.valid
    /\ WellFormed(driver.data)

(* C9: full_reduction started on a fresh session over a well-formed dataset, with
   every external tool call succeeding, ends with every recipe it attempted at
   SUCCESS and the overall status COMPLETE *)
C9_FullReductionCompletes ==
    FullReductionReturned
    => /\ status = COMPLETE
       /\ \A r \in Range(FullReduction) \cap Recipes :
             (r = "sph_ird_clean" => lastCall.op = r) => recipes_status[r] = SUCCESS

(* C10: a call of _read_info that directly follows a call of _read_info (the
   constructor's included) leaves the recipe status map and the overall status as
   the first call left them *)
C10_ReadInfoIdempotent ==
    [][(lastCall.op \in {"__new__", "_read_info"} /\ lastCall'.op = "_read_info")
       => (recipes_status' = recipes_status /\ status' = status)]_vars

(* _read_info has been called twice in succession on a directory with artifacts *)
C10_ReadTwice ==
    /\ lastCall.op = "_read_info"
    /\ lastCall.again
    /\ recipes_status["sort_frames"] = SUCCESS

(* C11: the statuses _read_info leaves are a function of the disk alone: a
   session that calls _read_info ends with the recipe status map a fresh session
   reconstructs from the same files, whatever it held in memory before *)
C11_ReadInfoFromDiskOnly ==
    [][lastCall'.op = "_read_info"
       => recipes_status' = ApplyWrites(AllNotSet, ReadInfoWrites(Disk))]_vars

(* C12: sort_files on a raw directory without any FITS file marks sort_files
   ERROR, sets the reduction FATAL, writes no catalog file and leaves the
   catalogs held in memory as they were *)
C12_EmptyRawIsFatal ==
    [][(lastCall'.op = "sort_files" /\ raw.files = {})
       => /\ recipes_status'["sort_files"] = ERROR
          /\ status' = FATAL
          /\ UNCHANGED <<files_csv, frames_csv, frames_preproc_csv>>
          /\ UNCHANGED <<files_info, frames_info, frames_info_preproc>>]_vars

(* sort_files has run on an emptied raw directory of a session that holds a catalog *)
C12_SortedNothing ==
    /\ lastCall.op = "sort_files"
    /\ raw.files = {}
    /\ files_info.set
    /\ status = FATAL

(* the SCIENCE records of a set of headers or catalog rows show more than one
   arm, observing mode or filter combination *)
MixedScience(records) ==
    \E a, b \in {r \in records : r.catg = "SCIENCE"} :
        a.arm # b.arm \/ a.mode # b.mode \/ a.filt # b.filt

(* C13: when the SCIENCE records mix arms, observing modes or filter
   combinations, the stage that meets them (sort_files on the raw headers for
   the arm, check_files_association on the catalog) leaves the reduction FATAL *)
C13_MixedScienceIsFatal ==
    [][(\/ /\ lastCall'.op = "sort_files"
           /\ \E a, b \in {h \in raw.files : h.catg = "SCIENCE"} : a.arm # b.arm
        \/ /\ lastCall'.op = "check_files_association"
           /\ lastCall'.ran
           /\ MixedScience(Range(files_info.rows)))
       => status' = FATAL]_vars

(* the catalog rows show one arm and the SCIENCE rows one observing mode and
   one supported filter combination *)
SingleConfiguration(rows) ==
    /\ \A a, b \in rows : a.arm = b.arm
    /\ ~MixedScience(rows)
    /\ \A r \in rows : r.catg = "SCIENCE" => r.filt \in {"S_LR", "S_MR"}

CalibrationRecipes == {"sph_ird_cal_dark", "sph_ird_cal_detector_flat", "sph_ird_cal_wave"}

(* C14: a check_files_association that counts at least one error marks itself
   ERROR and leaves the reduction FATAL, so that no calibration recipe runs
   after it; one that counts no error on a catalog of a single configuration
   saves the catalog it holds and ends SUCCESS *)
C14_AssociationErrorsAreFatal ==
    [][/\ (lastCall'.op = "check_files_association" /\ lastCall'.ran
           /\ lastCall'.result = "returned")
          => IF lastCall'.err >= 1
             THEN /\ recipes_status'["check_files_association"] = ERROR
                  /\ status' = FATAL
             ELSE SingleConfiguration(Range(files_info.rows))
                  => /\ recipes_status'["check_files_association"] = SUCCESS
                     /\ files_csv' = ToCsv(files_info')
       /\ (recipes_status["check_files_association"] = ERROR
           /\ lastCall'.op \in CalibrationRecipes)
          => ~lastCall'.ran]_vars

(* the calibration rows of the catalog that are flats in the filter combination
   of the science rows *)
MatchingFlats(rows) ==
    {r \in rows : /\ r.catg = "CALIB"
                  /\ r.type = "FLAT,LAMP"
                  /\ \E sci \in rows : sci.catg = "SCIENCE" /\ sci.filt = r.filt}

(* the catalog holds a wavelength calibration in the filter combination of the
   science rows, with a DIT of two decimals, and a dark of that DIT *)
WaveCalibrationCovered(rows) ==
    \E w \in rows :
        /\ w.catg = "CALIB" /\ w.type = "LAMP,WAVE"
        /\ \E sci \in rows : sci.catg = "SCIENCE" /\ sci.filt = w.filt
        /\ Round2(w.dit) = w.dit
        /\ \E d \in rows : d.catg = "CALIB" /\ d.type \in {"DARK", "DARK,BACKGROUND"}
                           /\ Round2(d.dit) = w.dit

(* C15: a check_files_association that finds exactly two flats in the filter
   combination of the science counts no error for the flats (none at all when
   the wavelength calibration and its dark are there); one that finds exactly
   one flat counts an error (exactly one when the rest is there) and ends ERROR *)
C15_FlatCardinality ==
    [][(lastCall'.op = "check_files_association" /\ lastCall'.ran
        /\ SingleConfiguration(Range(files_info.rows)))
       => LET rows == Range(files_info.rows)
              n == Cardinality(MatchingFlats(rows))
          IN  /\ (n = 2 /\ WaveCalibrationCovered(rows))
                 => (lastCall'.err = 0 /\ recipes_status'["check_files_association"] = SUCCESS)
              /\ n = 2 => lastCall'.err <= 1
              /\ (n = 1 /\ lastCall'.result = "returned")
                 => (lastCall'.err >= 1 /\ recipes_status'["check_files_association"] = ERROR)
              /\ (n = 1 /\ WaveCalibrationCovered(rows)) => lastCall'.err = 1]_vars

(* the association has counted its one error on a catalog with a single flat *)
C15_OneFlatReported ==
    /\ lastCall.op = "check_files_association"
    /\ lastCall.ran
    /\ lastCall.err = 1
    /\ files_info.set
    /\ Cardinality(MatchingFlats(Range(files_info.rows))) = 1
    /\ WaveCalibrationCovered(Range(files_info.rows))

(* the wavelength calibrations of the catalog in the filter combination of the
   science rows *)
WaveCandidates(rows) ==
    {r \in rows : /\ r.catg = "CALIB"
                  /\ r.type = "LAMP,WAVE"
                  /\ \E sci \in rows : sci.catg = "SCIENCE" /\ sci.filt = r.filt}

(* the candidates closest in time to the first science exposure *)
NearestWave(rows) ==
    LET first == CHOOSE s \in rows :
                    /\ s.catg = "SCIENCE"
                    /\ \A o \in rows : o.catg = "SCIENCE" => s.time <= o.time
    IN  {c \in WaveCandidates(rows) :
            \A d \in WaveCandidates(rows) :
                AbsDiff(c.time, first.time) <= AbsDiff(d.time, first.time)}

(* C16: a check_files_association that finds several wavelength calibrations
   in the filter combination of the science keeps the one closest in time to
   the first science exposure and no other *)
C16_KeepsNearestWave ==
    [][(/\ lastCall'.op = "check_files_association"
        /\ lastCall'.ran
        /\ SingleConfiguration(Range(files_info.rows))
        /\ Cardinality(WaveCandidates(Range(files_info.rows))) > 1)
       => WaveCandidates(Range(files_info'.rows)) = NearestWave(Range(files_info.rows))]_vars

(* C17: the wavelength calibrations that check_files_association excludes stay
   in the catalog: every row held before the pass is held after it, and the
   catalog file the pass saves has every one of them *)
C17_ExcludedStayInCatalog ==
    [][(/\ lastCall'.op = "check_files_association"
        /\ lastCall'.ran
        /\ Cardinality(WaveCandidates(Range(files_info.rows))) > 1)
       => /\ Range(files_info.rows) \subseteq Range(files_info'.rows)
          /\ files_csv' # files_csv
             => Range(files_info.rows) \subseteq Range(ReadCsv(files_csv').rows)]_vars

(* the DITs, rounded to two decimals, of the OBJECT-type science rows *)
ScienceDITs(rows) ==
    {Round2(r.dit) : r \in {s \in rows : s.catg = "SCIENCE" /\ IsObjectType(s)}}

(* the warnings due if each DIT requirement is evaluated once per rounded DIT:
   one for a missing dark or background, one for a missing sky *)
WarningsDue(rows) ==
    Cardinality({DIT \in ScienceDITs(rows) :
                    ~\E d \in rows : /\ d.catg = "CALIB"
                                     /\ d.type \in {"DARK", "DARK,BACKGROUND"}
                                     /\ Round2(d.dit) = DIT})
    + Cardinality({DIT \in ScienceDITs(rows) :
                      ~\E k \in rows : k.type = "SKY" /\ Round2(k.dit) = DIT})
    + (IF Cardinality(WaveCandidates(rows)) > 1 THEN 1 ELSE 0)

(* C18: check_files_association evaluates the dark and the sky requirement
   once per distinct rounded DIT of the OBJECT-type science rows: the warnings
   of a pass are one per requirement and rounded DIT left without calibration,
   also when several science DITs round to the same value *)
C18_OncePerRoundedDIT ==
    [][(/\ lastCall'.op = "check_files_association"
        /\ lastCall'.ran
        /\ lastCall'.result = "returned"
        /\ SingleConfiguration(Range(files_info.rows)))
       => lastCall'.warn = WarningsDue(Range(files_info.rows))]_vars

(* some rounded DIT of the OBJECT-type science rows has no dark or background,
   or no sky, in the catalog *)
RecommendedMissing(rows) ==
    \E DIT \in ScienceDITs(rows) :
        \/ ~\E d \in rows : /\ d.catg = "CALIB"
                            /\ d.type \in {"DARK", "DARK,BACKGROUND"}
                            /\ Round2(d.dit) = DIT
        \/ ~\E k \in rows : k.type = "SKY" /\ Round2(k.dit) = DIT

(* C19: a dark, background or sky missing for a science DIT adds warnings and
   no error: a pass that has its flats and its wavelength calibration with dark
   counts no error whatever is missing for the science DITs, and a pass with
   warnings and without errors ends SUCCESS with a reduction that is not FATAL *)
C19_WarningsAreNotErrors ==
    [][(/\ lastCall'.op = "check_files_association"
        /\ lastCall'.ran
        /\ SingleConfiguration(Range(files_info.rows)))
       => LET rows == Range(files_info.rows)
          IN  /\ (/\ RecommendedMissing(rows)
                  /\ Cardinality(MatchingFlats(rows)) >= 2
                  /\ WaveCalibrationCovered(rows))
                 => (lastCall'.warn >= 1 /\ lastCall'.err = 0)
              /\ (lastCall'.warn >= 1 /\ lastCall'.err = 0)
                 => /\ recipes_status'["check_files_association"] = SUCCESS
                    /\ status' # FATAL]_vars

(* the association has passed with warnings on science DITs 1.65 and 4.00 with
   a dark at 1.65 only *)
C19_PassedWithWarnings ==
    /\ lastCall.op = "check_files_association"
    /\ lastCall.ran
    /\ raw.files = DataTwoDits
    /\ lastCall.warn >= 1
    /\ lastCall.err = 0
    /\ recipes_status["check_files_association"] = SUCCESS
    /\ status = INCOMPLETE

(* the catalog holds one raw wavelength calibration and a dark (raw for the
   association, master dark for the recipe) whose DIT is the same after rounding
   both to two decimals *)
WaveDarkAfterRounding(rows, processed) ==
    /\ Cardinality({w \in rows : ~w.processed /\ w.type = "LAMP,WAVE"}) = 1
    /\ \E w \in rows :
          /\ ~w.processed /\ w.type = "LAMP,WAVE"
          /\ \E d \in rows :
                /\ d.catg = "CALIB" /\ d.processed = processed
                /\ IF processed THEN d.procatg = "IRD_MASTER_DARK"
                   ELSE d.type \in {"DARK", "DARK,BACKGROUND"}
                /\ d.dit # NaN /\ Round2(d.dit) = Round2(w.dit)

(* C20: the dark lookups for the wavelength calibration compare DITs rounded to
   two decimals on both sides: check_files_association with two flats counts no
   error, and sph_ird_cal_wave with a master flat does not end ERROR on its
   inputs, when a dark has the DIT of the wavelength calibration after rounding *)
C20_RoundedOnBothSides ==
    [][/\ (/\ lastCall'.op = "check_files_association"
           /\ lastCall'.ran
           /\ SingleConfiguration(Range(files_info.rows))
           /\ Cardinality(MatchingFlats(Range(files_info.rows))) >= 2
           /\ WaveDarkAfterRounding(Range(files_info.rows), FALSE))
          => lastCall'.err = 0
       /\ (/\ lastCall'.op = "sph_ird_cal_wave"
           /\ lastCall'.ran
           /\ HasProCatg(files_info, "IRD_FLAT_FIELD")
           /\ WaveDarkAfterRounding(Range(files_info.rows), TRUE))
          => ~WaveInputError(WaveInputs(files_info.rows))]_vars

(* C21: every check_files_association that passes its gate runs to its end:
   the call returns, and the recipe's own status is then SUCCESS or ERROR *)
C21_AssociationRunsToItsEnd ==
    [][(lastCall'.op = "check_files_association" /\ lastCall'.ran)
       => /\ lastCall'.result = "returned"
          /\ recipes_status'["check_files_association"] \in {SUCCESS, ERROR}]_vars

(* the OBJECT,CENTER and the OBJECT frames of the preprocessed frame table *)
Candidates == {r \in Range(frames_info_preproc.rows) : r.type = "OBJECT,CENTER"}
ObjectFrames == SelectSeq(frames_info_preproc.rows, LAMBDA r : r.type = "OBJECT")

(* center c, as recorded by sph_ird_combine_data, is the centers file of
   candidate r *)
IsCenterOf(c, r) == c.how = "file" /\ c.file = r.file /\ c.img = r.img

(* C22: with selection 'first' sph_ird_combine_data takes for every OBJECT
   frame the centers of an OBJECT,CENTER frame of lowest acquisition time, with
   'last' those of one of highest acquisition time *)
C22_FirstAndLast ==
    [][(/\ lastCall'.op = "sph_ird_combine_data"
        /\ lastCall'.ran
        /\ lastCall'.note.manual = "none"
        /\ Candidates # {})
       => \A k \in DOMAIN lastCall'.note.object :
             LET c == lastCall'.note.object[k]
             IN  /\ lastCall'.note.selection = "first"
                    => \E r \in Candidates :
                          IsCenterOf(c, r) /\ \A o \in Candidates : r.time <= o.time
                 /\ lastCall'.note.selection = "last"
                    => \E r \in Candidates :
                          IsCenterOf(c, r) /\ \A o \in Candidates : r.time >= o.time]_vars

(* sph_ird_combine_data has combined two OBJECT frames with the last of three
   OBJECT,CENTER candidates *)
C22_TookLast ==
    /\ lastCall.op = "sph_ird_combine_data"
    /\ lastCall.result = "returned"
    /\ recipes_status["sph_ird_combine_data"] = SUCCESS
    /\ raw.files = DataThreeCenters
    /\ lastCall.note.manual = "none"
    /\ lastCall.note.selection = "last"
    /\ Len(lastCall.note.object) = 2
    /\ \A k \in 1..2 : lastCall.note.object[k].time = 30

(* C23: with selection 'time' sph_ird_combine_data takes for every OBJECT frame
   the centers of the OBJECT,CENTER frame whose acquisition time is nearest to
   the frame's own, and of the earliest one among equally near candidates *)
C23_NearestInTime ==
    [][(/\ lastCall'.op = "sph_ird_combine_data"
        /\ lastCall'.ran
        /\ lastCall'.note.manual = "none"
        /\ lastCall'.note.selection = "time"
        /\ Candidates # {})
       => \A k \in DOMAIN lastCall'.note.object :
             LET c == lastCall'.note.object[k]
                 time_sci == ObjectFrames[k].time
             IN  \E r \in Candidates :
                    /\ IsCenterOf(c, r)
                    /\ \A o \in Candidates :
                          \/ AbsDiff(time_sci, r.time) < AbsDiff(time_sci, o.time)
                          \/ /\ AbsDiff(time_sci, r.time) = AbsDiff(time_sci, o.time)
                             /\ r.time <= o.time]_vars

(* sph_ird_combine_data has combined, by nearest time, a science exposure taken
   at equal distance from two OBJECT,CENTER candidates, with the earlier one *)
C23_TookEarlierOfTied ==
    /\ lastCall.op = "sph_ird_combine_data"
    /\ lastCall.result = "returned"
    /\ recipes_status["sph_ird_combine_data"] = SUCCESS
    /\ raw.files = DataTiedCenters
    /\ lastCall.note.manual = "none"
    /\ lastCall.note.selection = "time"
    /\ lastCall.note.object # <<>>
    /\ \A k \in DOMAIN lastCall.note.object : lastCall.note.object[k].time = 14

(* what sph_ird_combine_data reads apart from the centers is there: a
   wavelength file, a known filter combination and the preprocessed file of
   every frame of the table *)
CombineInputsReady ==
    /\ frames_info_preproc.set /\ frames_info_preproc.rows # <<>>
    /\ {WAVELENGTH_RECALIBRATED, WAVELENGTH_DEFAULT} \cap preproc_fits # {}
    /\ KnownFilter(frames_info_preproc)
    /\ \A r \in Range(frames_info_preproc.rows) : PreprocFile(r.file, r.img) \in preproc_fits

(* C24: a sph_ird_combine_data given a valid manual center takes it for every
   OBJECT,CENTER and every OBJECT frame and ends SUCCESS, whatever the center
   selection is and whether or not candidates or centers files exist *)
C24_ManualCenterOverrides ==
    [][(/\ lastCall'.op = "sph_ird_combine_data"
        /\ lastCall'.ran
        /\ lastCall'.note.manual = "valid"
        /\ CombineInputsReady)
       => /\ lastCall'.result = "returned"
          /\ recipes_status'["sph_ird_combine_data"] = SUCCESS
          /\ Len(lastCall'.note.center) = Cardinality(Candidates)
          /\ Len(lastCall'.note.object) = Len(ObjectFrames)
          /\ \A k \in DOMAIN lastCall'.note.center : lastCall'.note.center[k].how = "manual"
          /\ \A k \in DOMAIN lastCall'.note.object : lastCall'.note.object[k].how = "manual"]_vars

(* sph_ird_combine_data has combined with a manual center and an unknown
   center selection, with candidates in the table and no centers file on disk *)
C24_ManualWithoutCenters ==
    /\ lastCall.op = "sph_ird_combine_data"
    /\ recipes_status["sph_ird_combine_data"] = SUCCESS
    /\ lastCall.note.manual = "valid"
    /\ lastCall.note.selection = "other"
    /\ Candidates # {}
    /\ lastCall.note.object # <<>>
    /\ \A r \in Candidates : CentersFile(r.file, r.img) \notin preproc_fits

(* C25: a sph_ird_combine_data without manual center on a table with OBJECT
   frames and no OBJECT,CENTER frame returns, ends SUCCESS and leaves the
   reduction COMPLETE *)
C25_DefaultCenterFallback ==
    [][(/\ lastCall'.op = "sph_ird_combine_data"
        /\ lastCall'.ran
        /\ lastCall'.note.manual = "none"
        /\ Candidates = {}
        /\ ObjectFrames # <<>>
        /\ CombineInputsReady)
       => /\ lastCall'.result = "returned"
          /\ recipes_status'["sph_ird_combine_data"] = SUCCESS
          /\ status' = COMPLETE]_vars

(* C26: a sort_frames that succeeds holds, for every science file of the
   catalog with NDIT = k, exactly k frames numbered 0 .. k-1 in this order, each
   with the attributes of its file, and no frame of any other file *)
C26_FramesPerNDIT ==
    [][(/\ lastCall'.op = "sort_frames"
        /\ lastCall'.ran
        /\ recipes_status'["sort_frames"] = SUCCESS)
       => LET F == frames_info'.rows
              sci == {r \in Range(files_info.rows) : r.catg = "SCIENCE" /\ r.type # "SKY"}
          IN  /\ \A r \in sci :
                    LET sub == SelectSeq(F, LAMBDA f : f.file = r.name)
                    IN  /\ Len(sub) = r.ndit
                        /\ \A i \in 1..Len(sub) :
                              /\ sub[i].img = i - 1
                              /\ sub[i].catg = r.catg /\ sub[i].type = r.type
                              /\ sub[i].dit = r.dit /\ sub[i].filt = r.filt
                              /\ sub[i].time = r.time /\ sub[i].ndit = r.ndit
              /\ \A i \in 1..Len(F) : \E r \in sci : F[i].file = r.name
              /\ frames_csv' = ToCsv(frames_info')]_vars

(* sort_frames has expanded a catalog with a science file of NDIT 2 and one of
   NDIT 1 into three frames *)
C26_Expanded ==
    /\ lastCall.op = "sort_frames"
    /\ recipes_status["sort_frames"] = SUCCESS
    /\ \E r \in Range(files_info.rows) : r.catg = "SCIENCE" /\ r.ndit = 2
    /\ \E r \in Range(files_info.rows) : r.catg = "SCIENCE" /\ r.ndit = 1
    /\ Len(frames_info.rows) = 3

(* the product category declared for the output files of the esorex recipes,
   by the kind of file name *)
DeclaredCategory ==
    [dark |-> {"IRD_MASTER_DARK"}, dark_bpm |-> {"IRD_STATIC_BADPIXELMAP"},
     flat |-> {"IRD_FLAT_FIELD"}, flat_bpm |-> {"IRD_NON_LINEAR_BADPIXELMAP"},
     wave_calib |-> {"IRD_WAVECALIB"}, raw |-> {}]

(* C27: in the catalog, in memory and on disk, every row with PROCESSED set
   carries a product category, and every row registered for an output file of
   an esorex recipe has PROCESSED set and the category declared for that file *)
C27_ProcessedHaveCategory ==
    \A f \in {files_info, ReadCsv(files_csv)} :
        \A r \in Range(f.rows) :
            /\ r.processed => r.procatg \notin {"", " ", "NaN"}
            /\ r.name[1] # "raw" => (r.processed /\ r.procatg \in DeclaredCategory[r.name[1]])

(* the catalog holds the master dark, the flat field, their bad pixel maps and
   the wavelength calibration *)
C27_ProductsRegistered ==
    /\ files_info.set
    /\ \A c \in {"IRD_MASTER_DARK", "IRD_STATIC_BADPIXELMAP", "IRD_FLAT_FIELD",
                 "IRD_NON_LINEAR_BADPIXELMAP", "IRD_WAVECALIB"} :
          \E r \in Range(files_info.rows) : r.processed /\ r.procatg = c

Names(f) == {r.name : r \in Range(f.rows)}

UniqueNames(f) ==
    \A i, j \in 1..Len(f.rows) : f.rows[i].name = f.rows[j].name => i = j

(* the identifiers sph_ird_cal_dark registers from the catalog rows *)
DarkProductNames(rows) ==
    UNION {{DarkName(DarkLoc(g.ctype), g.cfilt, g.DIT),
            DarkBpmName(DarkLoc(g.ctype), g.cfilt, g.DIT)} : g \in Range(DarkGroups(rows))}

(* C28 (amended): in the catalog, in memory and on disk, no two rows share an
   identifier, raw or derived; a dark recipe that registers its products under
   identifiers the catalog already holds is not rejected: it ends with
   SUCCESS and the catalog holds each identifier once *)
C28_UniqueIdentifiers ==
    [][/\ UniqueNames(files_info') /\ UniqueNames(ReadCsv(files_csv'))
       /\ (/\ lastCall'.op = "sph_ird_cal_dark" /\ lastCall'.ran
           /\ recipes_status'["sph_ird_cal_dark"] = SUCCESS)
          => /\ Names(files_info') = Names(files_info) \cup DarkProductNames(files_info.rows)
             /\ Len(files_info'.rows) = Cardinality(Names(files_info'))]_vars

(* sph_ird_cal_dark has succeeded a second time over a catalog that held its
   products *)
C28_RegisteredAgain ==
    /\ lastCall.op = "sph_ird_cal_dark" /\ lastCall.ran /\ lastCall.again
    /\ used.faults = 0
    /\ recipes_status["sph_ird_cal_dark"] = SUCCESS
    /\ DarkProductNames(files_info.rows) # {}
    /\ DarkProductNames(files_info.rows) \subseteq Names(files_info)

(* C28 (as stated): identifiers are unique and a registration under an
   identifier the catalog already holds is rejected: the recipe does not end with
   SUCCESS and the catalog is left as it was *)
C28_DuplicateRejected ==
    [][/\ UniqueNames(files_info') /\ UniqueNames(ReadCsv(files_csv'))
       /\ (/\ lastCall'.op = "sph_ird_cal_dark" /\ lastCall'.ran
           /\ DarkProductNames(files_info.rows) \cap Names(files_info) # {})
          => /\ recipes_status'["sph_ird_cal_dark"] # SUCCESS
             /\ files_info' = files_info]_vars

(* C29: after a recipe call has returned, with SUCCESS, with ERROR or without
   running, the catalog in memory equals the catalog read from files.csv *)
C29_CatalogFlushed ==
    [][(/\ lastCall'.op \in Recipes
        /\ lastCall'.result \in {"returned", "gated"}
        /\ files_info'.set)
       => files_info' = ReadCsv(files_csv')]_vars

(* the statuses a new session reconstructs from the files now on disk *)
Reconstructed == ApplyWrites(AllNotSet, ReadInfoWrites(Disk))
SpartaReconstructed == SpartaReadInfo(<<>>, sparta.products)

(* C30: between recipe calls, every recipe whose status in memory is SUCCESS is
   also SUCCESS in the status map that _read_info reconstructs in a new session
   from the files now on disk, for the SPARTA reduction and for the IRDIS one *)
C30_SuccessIsReconstructible ==
    /\ \A r \in DOMAIN sparta.recipes_status :
          sparta.recipes_status[r] = SUCCESS
          => r \in DOMAIN SpartaReconstructed /\ SpartaReconstructed[r] = SUCCESS
    /\ \A r \in Recipes :
          recipes_status[r] = SUCCESS => Reconstructed[r] = SUCCESS

RECURSIVE Prerequisites(_, _, _)
(* the names reached from the set S along the table T in at most n steps *)
Prerequisites(T, S, n) ==
    IF n = 0 THEN S
    ELSE Prerequisites(T, S \cup UNION {T[x] : x \in S \cap DOMAIN T}, n - 1)

(* in the table T the recipe r has only recipes of T as prerequisites and is not
   among its own direct or indirect prerequisites *)
WellFormedIn(T, r) ==
    /\ T[r] \subseteq DOMAIN T
    /\ r \notin Prerequisites(T, T[r], Cardinality(DOMAIN T))

(* C31: the dependency table of each reducer is a well-formed directed acyclic
   graph: for the recipe called last, every prerequisite name is a declared
   recipe of the table and the recipe is not its own prerequisite; so the gate
   of a declared recipe stays closed, on a reduction that is not FATAL, only
   while a declared prerequisite has not succeeded *)
C31_RequirementsWellFormed ==
    /\ lastCall.op \in Recipes => WellFormedIn(recipe_requirements, lastCall.op)
    /\ sparta.op \in DOMAIN sparta_recipe_requirements
       => /\ WellFormedIn(sparta_recipe_requirements, sparta.op)
          /\ (sparta.result = "gated" /\ sparta.status # FATAL)
             => \E q \in sparta_recipe_requirements[sparta.op]
                          \cap DOMAIN sparta_recipe_requirements :
                   q \notin DOMAIN sparta.recipes_status
                   \/ sparta.recipes_status[q] # SUCCESS

(* the entries of the status map new other than the entry of the recipe own are
   the entries of the status map old *)
OnlyOwnEntry(old, new, own) ==
    /\ DOMAIN new \ {own} = DOMAIN old \ {own}
    /\ \A r \in DOMAIN old \ {own} : new[r] = old[r]

(* C32: a recipe method writes no status entry but the one of its own name, and
   the status map of each reducer has only recipes declared in its
   recipe_requirements as keys and only NOTSET, SUCCESS and ERROR as values *)
C32_OwnStatusOnly ==
    [][/\ lastCall'.op \in Recipes => OnlyOwnEntry(recipes_status, recipes_status', lastCall'.op)
       /\ DOMAIN recipes_status' \subseteq Recipes
       /\ \A r \in DOMAIN recipes_status' : recipes_status'[r] \in RecipeStatuses
       /\ sparta'.op # "__new__"
          => OnlyOwnEntry(sparta.recipes_status, sparta'.recipes_status, sparta'.op)
       /\ DOMAIN sparta'.recipes_status \subseteq DOMAIN sparta_recipe_requirements
       /\ \A r \in DOMAIN sparta'.recipes_status :
             sparta'.recipes_status[r] \in RecipeStatuses]_vars

(* C33: a sph_ird_cal_wave that runs in a session whose check_files_association
   ended with SUCCESS finds exactly one unprocessed LAMP,WAVE record in the
   catalog, and so passes its check of the number of raw wavelength calibration
   files *)
C33_OneWaveAfterAssociation ==
    [][(/\ lastCall'.op = "sph_ird_cal_wave" /\ lastCall'.ran
        /\ recipes_status["check_files_association"] = SUCCESS)
       => Len(WaveInputs(files_info.rows).wave_file) = 1]_vars

(* the products in the catalog rows with the category c *)
Products(rows, c) == {r \in Range(rows) : r.processed /\ r.procatg = c}

(* an input of sph_ird_cal_wave is absent from the catalog rows: the master dark
   at the DIT of the wavelength calibration file, the flat field, or the bad
   pixel map of the flat *)
WaveInputAbsent(rows) ==
    LET waves == {r \in Range(rows) : ~r.processed /\ r.type = "LAMP,WAVE"}
    IN  \/ \E w \in waves :
              \A d \in Products(rows, "IRD_MASTER_DARK") :
                  d.dit = NaN \/ Round2(d.dit) # Round2(w.dit)
        \/ Products(rows, "IRD_FLAT_FIELD") = {}
        \/ Products(rows, "IRD_NON_LINEAR_BADPIXELMAP") = {}

(* C34: a sph_ird_cal_wave that runs on a catalog without its master dark,
   without a flat field or without a bad pixel map ends with its status ERROR and
   has called no external tool: no manifest, no product and no catalog change *)
C34_MissingInputIsError ==
    [][(/\ lastCall'.op = "sph_ird_cal_wave" /\ lastCall'.ran
        /\ WaveInputAbsent(files_info.rows))
       => /\ lastCall'.result = "returned"
          /\ recipes_status'["sph_ird_cal_wave"] = ERROR
          /\ UNCHANGED <<memVars, diskVars>>]_vars

(* sph_ird_cal_wave has ended with ERROR on a catalog that holds the master dark
   of the wavelength calibration and neither flat field nor bad pixel map *)
C34_RefusedWithoutFlat ==
    /\ lastCall.op = "sph_ird_cal_wave" /\ lastCall.ran
    /\ recipes_status["sph_ird_cal_wave"] = ERROR
    /\ recipes_status["sph_ird_cal_detector_flat"] = SUCCESS
    /\ Products(files_info.rows, "IRD_MASTER_DARK") # {}
    /\ Products(files_info.rows, "IRD_FLAT_FIELD") = {}
    /\ Products(files_info.rows, "IRD_NON_LINEAR_BADPIXELMAP") = {}

(* the non-empty groups of raw dark files of the catalog rows: the (type,
   rounded DIT, filter combination) keys with the names of their files *)
RawDarkGroups(rows) ==
    LET darks == {r \in Range(rows) : ~r.processed /\ r.type \in {"DARK", "DARK,BACKGROUND", "SKY"}}
    IN  {[type |-> d.type, DIT |-> Round2(d.dit), filt |-> d.filt,
          files |-> {x.name : x \in {y \in darks : /\ y.type = d.type /\ y.filt = d.filt
                                                   /\ Round2(y.dit) = Round2(d.dit)}}]
         : d \in darks}

(* C35: when sph_ird_cal_dark has processed every group, each group of raw files
   (type, rounded DIT, filter combination) has a manifest that lists its files,
   a master dark row and a bad pixel map row of its own type; no group has
   replaced the manifest or the rows of another *)
C35_GroupsKeepTheirOwnOutput ==
    [][(/\ lastCall'.op = "sph_ird_cal_dark" /\ lastCall'.ran
        /\ recipes_status'["sph_ird_cal_dark"] = SUCCESS)
       => \A g \in RawDarkGroups(files_info.rows) :
             /\ \E m \in sof_files' : Range(m.files) = g.files
             /\ \A c \in {"IRD_MASTER_DARK", "IRD_STATIC_BADPIXELMAP"} :
                   \E r \in Products(files_info'.rows, c) :
                       /\ r.type = g.type /\ r.filt = g.filt
                       /\ r.name[4] = g.DIT]_vars

(* C36: a sph_ird_wavelength_recalibration that runs on preprocessed frames
   without OBJECT,CENTER, the wavelength calibration product being in the
   catalog and on disk,
   returns with no wavelength_recalibrated.fits left and with every recipe
   status as it was; a sph_ird_combine_data that runs on
   preprocessed frames reads wavelength_recalibrated.fits if it exists, otherwise
   wavelength_default.fits with a warning, and if neither exists it ends with
   ERROR and writes no product, an end it has in no other case *)
C36_WavelengthFallback ==
    [][/\ (/\ lastCall'.op = "sph_ird_wavelength_recalibration" /\ lastCall'.ran
           /\ frames_info_preproc.set
           /\ \E w \in Products(files_info.rows, "IRD_WAVECALIB") : w.name \in calib_fits
           /\ \A r \in Range(frames_info_preproc.rows) : r.type # "OBJECT,CENTER")
          => /\ lastCall'.result = "returned"
             /\ WAVELENGTH_RECALIBRATED \notin preproc_fits'
             /\ recipes_status' = recipes_status
       /\ (/\ lastCall'.op = "sph_ird_combine_data" /\ lastCall'.ran
           /\ frames_info_preproc.set /\ frames_info_preproc.rows # <<>>)
          => /\ WAVELENGTH_RECALIBRATED \in preproc_fits
                => lastCall'.note.wave = "wavelength_recalibrated"
             /\ (WAVELENGTH_RECALIBRATED \notin preproc_fits /\ WAVELENGTH_DEFAULT \in preproc_fits)
                => lastCall'.note.wave = "wavelength_default"
             /\ {WAVELENGTH_RECALIBRATED, WAVELENGTH_DEFAULT} \cap preproc_fits = {}
                => /\ lastCall'.result = "returned"
                   /\ recipes_status'["sph_ird_combine_data"] = ERROR
                   /\ products' = products
             /\ (/\ {WAVELENGTH_RECALIBRATED, WAVELENGTH_DEFAULT} \cap preproc_fits # {}
                 /\ lastCall'.result = "returned")
                => "wavelength" \in products']_vars

(* sph_ird_combine_data has read the default wavelength calibration after a
   sph_ird_wavelength_recalibration that found no OBJECT,CENTER frame *)
C36_DefaultUsed ==
    /\ lastCall.op = "sph_ird_combine_data" /\ lastCall.ran
    /\ lastCall.note.wave = "wavelength_default"
    /\ recipes_status["sph_ird_combine_data"] = SUCCESS
    /\ recipes_status["sph_ird_wavelength_recalibration"] = NOTSET
    /\ \A r \in Range(frames_info_preproc.rows) : r.type # "OBJECT,CENTER"

(* the master darks of the catalog rows built from the type t at the DIT *)
MasterDarks(rows, t, DIT) ==
    {r \in Products(rows, "IRD_MASTER_DARK") :
        r.type = t /\ r.dit # NaN /\ Round2(r.dit) = DIT}

(* the master darks of the first type among SKY, DARK,BACKGROUND and DARK that
   has one at the DIT *)
PreferredDarks(rows, DIT) ==
    IF MasterDarks(rows, "SKY", DIT) # {} THEN MasterDarks(rows, "SKY", DIT)
    ELSE IF MasterDarks(rows, "DARK,BACKGROUND", DIT) # {}
    THEN MasterDarks(rows, "DARK,BACKGROUND", DIT)
    ELSE MasterDarks(rows, "DARK", DIT)

(* the science types and rounded DITs of the catalog rows *)
ScienceGroups(rows) ==
    {<<r.type, Round2(r.dit)>> :
        r \in {x \in Range(rows) : /\ x.catg = "SCIENCE"
                                   /\ x.type \in {"OBJECT,CENTER", "OBJECT,FLUX", "OBJECT"}}}

(* C37: a sph_ird_preprocess_science that subtracts the background takes, for
   each science type and rounded DIT it comes to, the master dark built from SKY
   at that DIT if there is one, otherwise the one from DARK,BACKGROUND, otherwise
   the one from DARK; with none it takes a zero background and goes on; with
   more than one of the chosen type it ends with ERROR and frames_preproc.csv is
   not written; a call that ends with SUCCESS has come to every science type and
   DIT *)
C37_BackgroundSelection ==
    [][(lastCall'.op = "sph_ird_preprocess_science" /\ lastCall'.ran)
       => LET taken == lastCall'.note.bkg
          IN  /\ \A k \in DOMAIN taken :
                    LET e == taken[k]
                        darks == PreferredDarks(files_info.rows, e.DIT)
                    IN  e.how # "off"
                        => /\ <<e.typ, e.DIT>> \in ScienceGroups(files_info.rows)
                           /\ darks = {} <=> e.how = "zero"
                           /\ Cardinality(darks) = 1
                              <=> (e.how = "file" /\ e.file \in {d.name : d \in darks})
                           /\ Cardinality(darks) > 1
                              <=> (/\ e.how = "many" /\ k = Len(taken)
                                   /\ lastCall'.result = "returned"
                                   /\ recipes_status'["sph_ird_preprocess_science"] = ERROR
                                   /\ frames_preproc_csv' = frames_preproc_csv)
                           /\ (e.how = "zero" /\ k < Len(taken))
                              => taken[k + 1].typ # e.typ \/ taken[k + 1].DIT # e.DIT
              /\ recipes_status'["sph_ird_preprocess_science"] = SUCCESS
                 => {<<taken[k].typ, taken[k].DIT>> : k \in DOMAIN taken}
                       = ScienceGroups(files_info.rows)]_vars

(* sph_ird_preprocess_science has ended with SUCCESS after it took the master
   dark built from SKY although a master dark built from DARK exists at the
   same DIT *)
C37_SkyPreferred ==
    /\ lastCall.op = "sph_ird_preprocess_science" /\ lastCall.ran
    /\ recipes_status["sph_ird_preprocess_science"] = SUCCESS
    /\ \E k \in DOMAIN lastCall.note.bkg :
          LET e == lastCall.note.bkg[k]
          IN  /\ e.how = "file"
              /\ e.file \in {d.name : d \in MasterDarks(files_info.rows, "SKY", e.DIT)}
              /\ MasterDarks(files_info.rows, "DARK", e.DIT) # {}

(* C38: a sph_ifs_detector_flat called with science files of a known mode
   goes through all five wavelength channels: if a channel has a number of raw
   flats other than 0 and 2 the call raises; otherwise it returns with a master
   flat row and a bad pixel map row in the catalog for every channel with 2
   flats, none added for a channel without flats, and the catalog saved to
   calibs.csv *)
C38_EveryChannelProcessed ==
    [][(ifs'.op = "sph_ifs_detector_flat" /\ ifs.mode \in {"OBS_YJ", "OBS_H"})
       => IF \E k \in DOMAIN IfsLamps : ifs.flats[k] \notin {0, 2}
          THEN ifs'.result = "raised"
          ELSE /\ ifs'.result = "returned"
               /\ \A k \in DOMAIN IfsLamps :
                     LET added == {r \in ifs'.calibs_info \ ifs.calibs_info :
                                      r.name[2] = IfsLamps[k]}
                     IN  /\ ifs.flats[k] = 2
                            => {r.procatg : r \in added}
                                  = {"IFS_MASTER_DFF", "IFS_STATIC_BADPIXELMAP"}
                         /\ ifs.flats[k] = 0 => added = {}
               /\ ifs'.calibs_csv = ifs'.calibs_info]_vars

====
